---- MODULE Spec2Model ----
(***************************************************************************)
(* A model of harrix-pylib's Markdown checker (MarkdownChecker) and of the  *)
(* segmentation helpers it calls.  Text is modelled as a sequence of code   *)
(* points (one-character strings; a few code points that cannot be written *)
(* in a TLA+ string are named tokens), a file as its text, and a diagnostic *)
(* as the sequence of the pieces of the formatted string.                   *)
(***************************************************************************)
EXTENDS Integers, Sequences, FiniteSets, TLC

VARIABLES
    all_rules,     \* MarkdownChecker.all_rules
    project_root,  \* MarkdownChecker.project_root
    path,          \* the path of the Markdown file
    readable,      \* whether read_text(encoding="utf-8") of the file succeeds
    content,       \* the text of the file
    writes,        \* how many writes built the text
    call,          \* the arguments of the last check call, or NoCall
    active,        \* the active rule set the last check call computed
    doc,           \* the segmentation the last check call computed, or NoDoc
    out,           \* the list the last check call returned
    fmt,           \* the last _format_error call, or NoFmt
    tree,          \* the file system below "/": the node at each path
    walk,          \* the last find_markdown_files call, or NoWalk
    results,       \* the last check_directory call, or NoResults
    py_all_rules,  \* PythonChecker.all_rules
    pycall         \* the last PythonChecker.check call and its locals, or NoPyCall

vars == <<all_rules, project_root, path, readable, content, writes, call, active, doc, out, fmt,
          tree, walk, results, py_all_rules, pycall>>

(***************************************************************************)
(* Code points.                                                            *)
(***************************************************************************)
NL == "\n"
TAB == "\t"
BT == "BT"        \* U+0060, the backtick
NBSP == "NBSP"    \* U+00A0
EMDASH == "EM"    \* U+2014
ENDASH == "EN"    \* U+2013
MINUS == "MINUS"  \* U+2212
HBAR == "HBAR"    \* U+2015
ELLIPSIS == "ELL" \* U+2026
NUMERO == "NUMERO" \* U+2116
LDQUO == "LDQUO"  \* U+201C
RDQUO == "RDQUO"  \* U+201D
LAQUO == "LAQUO"  \* U+00AB
RAQUO == "RAQUO"  \* U+00BB
DQUOTE == "DQ"    \* U+0022
CYR_VE == "CYR_VE"     \* U+0412, Cyrillic capital Ve
CYR_VE_SMALL == "CYR_ve" \* U+0432, Cyrillic small Ve
CYR_YERU == "CYR_YERU" \* U+044B, Cyrillic small Yeru
CYR_HA == "CYR_HA"     \* U+0445, Cyrillic small Ha
TIMES == "TIMES"       \* U+00D7, multiplication sign

Digits == {"0", "1", "2", "3", "4", "5", "6", "7", "8", "9"}
LowerLatin == {"a", "b", "c", "d", "e", "f", "g", "h", "i", "j", "k", "l", "m",
               "n", "o", "p", "q", "r", "s", "t", "u", "v", "w", "x", "y", "z"}
UpperLatin == {"A", "B", "C", "D", "E", "F", "G", "H", "I", "J", "K", "L", "M",
               "N", "O", "P", "Q", "R", "S", "T", "U", "V", "W", "X", "Y", "Z"}
LowerCyr == {CYR_VE_SMALL, CYR_YERU, CYR_HA}
UpperCyr == {CYR_VE}

\* str.isspace(): the white space str.strip() removes and \s matches
IsSpace(c) == c \in {" ", TAB, NL, NBSP}
\* str.isdigit()
IsDigit(c) == c \in Digits
\* \w of a str pattern: Unicode letters, digits and the underscore
IsWordChar(c) == c \in Digits \cup LowerLatin \cup UpperLatin \cup LowerCyr \cup UpperCyr \cup {"_"}
\* str.islower() of one letter
IsLower(c) == c \in LowerLatin \cup LowerCyr
\* str.isalpha() of one code point
IsAlpha(c) == c \in LowerLatin \cup UpperLatin \cup LowerCyr \cup UpperCyr

LowerOf == [c \in UpperLatin \cup UpperCyr |->
              CASE c = CYR_VE -> CYR_VE_SMALL
                [] c = "A" -> "a" [] c = "B" -> "b" [] c = "C" -> "c" [] c = "D" -> "d"
                [] c = "E" -> "e" [] c = "F" -> "f" [] c = "G" -> "g" [] c = "H" -> "h"
                [] c = "I" -> "i" [] c = "J" -> "j" [] c = "K" -> "k" [] c = "L" -> "l"
                [] c = "M" -> "m" [] c = "N" -> "n" [] c = "O" -> "o" [] c = "P" -> "p"
                [] c = "Q" -> "q" [] c = "R" -> "r" [] c = "S" -> "s" [] c = "T" -> "t"
                [] c = "U" -> "u" [] c = "V" -> "v" [] c = "W" -> "w" [] c = "X" -> "x"
                [] c = "Y" -> "y" [] c = "Z" -> "z"]
\* str.lower()
lower(s) == [i \in 1..Len(s) |-> IF s[i] \in UpperLatin \cup UpperCyr THEN LowerOf[s[i]] ELSE s[i]]

(***************************************************************************)
(* str methods, on sequences of code points.  Indexes are Python's: 0-based.*)
(***************************************************************************)
SetMin(S) == CHOOSE m \in S : \A n \in S : m <= n
SetMax(S) == CHOOSE m \in S : \A n \in S : n <= m

RECURSIVE lstrip(_)
lstrip(s) == IF s # <<>> /\ IsSpace(Head(s)) THEN lstrip(Tail(s)) ELSE s

RECURSIVE rstrip(_)
rstrip(s) == IF s # <<>> /\ IsSpace(s[Len(s)]) THEN rstrip(SubSeq(s, 1, Len(s) - 1)) ELSE s

strip(s) == lstrip(rstrip(s))

startswith(s, p) == Len(s) >= Len(p) /\ SubSeq(s, 1, Len(p)) = p

endswith(s, p) == Len(s) >= Len(p) /\ SubSeq(s, Len(s) - Len(p) + 1, Len(s)) = p

\* s[i:], i 0-based
From(s, i) == SubSeq(s, i + 1, Len(s))

\* the 0-based indexes at which p occurs in s
Occurrences(s, p) == {i \in 0..(Len(s) - Len(p)) : SubSeq(s, i + 1, i + Len(p)) = p}

\* str.find(p): the first index, or -1
find(s, p) == IF Occurrences(s, p) = {} THEN -1 ELSE SetMin(Occurrences(s, p))

\* str.rfind(p): the last index, or -1
rfind(s, p) == IF Occurrences(s, p) = {} THEN -1 ELSE SetMax(Occurrences(s, p))

\* p in s
contains(s, p) == Occurrences(s, p) # {}

\* str.replace(p, r), p not empty: left to right, without overlap
RECURSIVE replace(_, _, _)
replace(s, p, r) ==
    IF Len(s) < Len(p) THEN s
    ELSE IF startswith(s, p) THEN r \o replace(From(s, Len(p)), p, r)
    ELSE <<Head(s)>> \o replace(Tail(s), p, r)

\* str.splitlines(), with "\n" the only line boundary of the modelled texts
RECURSIVE splitlines(_)
splitlines(s) ==
    IF s = <<>> THEN <<>>
    ELSE LET k == find(s, <<NL>>)
         IN IF k = -1 THEN <<s>>
            ELSE <<SubSeq(s, 1, k)>> \o splitlines(From(s, k + 1))

\* the text of a sequence of code points as one string
RECURSIVE Flat(_)
Flat(s) == IF s = <<>> THEN "" ELSE Head(s) \o Flat(Tail(s))

\* the length of the run of c that s starts with
RECURSIVE RunLength(_, _)
RunLength(s, c) == IF s # <<>> /\ Head(s) = c THEN 1 + RunLength(Tail(s), c) ELSE 0

DASH3 == <<"-", "-", "-">>
FENCE3 == <<BT, BT, BT>>

(***************************************************************************)
(* Paths: a sequence of components below "/", each a sequence of code       *)
(* points.                                                                 *)
(***************************************************************************)
RECURSIVE JoinPath(_)
JoinPath(parts) ==
    IF Len(parts) = 0 THEN <<>>
    ELSE IF Len(parts) = 1 THEN parts[1]
    ELSE parts[1] \o <<"/">> \o JoinPath(Tail(parts))

\* str(filename) of an absolute path
PathStr(parts) == <<"/">> \o JoinPath(parts)

\* filename.name
PathName(parts) == parts[Len(parts)]

get_relative_path(filename, root) ==
    IF Len(filename) >= Len(root) /\ SubSeq(filename, 1, Len(root)) = root
    THEN Flat(JoinPath(SubSeq(filename, Len(root) + 1, Len(filename))))
    ELSE Flat(PathStr(filename))

(***************************************************************************)
(* The rule registry and the diagnostic formatter.                         *)
(***************************************************************************)
RULES ==
    [H001 |-> "Presence of a space in the Markdown file name",
     H002 |-> "Presence of a space in the path to the Markdown file",
     H003 |-> "YAML is missing",
     H004 |-> "The lang field is missing in YAML",
     H005 |-> "In YAML, lang is not set to en or ru",
     H006 |-> "Incorrect word form used",
     H007 |-> "Incorrect code block language identifier",
     H008 |-> "Trailing whitespace at end of line",
     H009 |-> "Double spaces in line",
     H010 |-> "Tab character found",
     H011 |-> "No empty line at end of file",
     H012 |-> "Two consecutive empty lines",
     H013 |-> "Missing colon before code block",
     H014 |-> "Missing colon before image",
     H015 |-> "Space before punctuation mark",
     H016 |-> "Incorrect dash/hyphen usage",
     H017 |-> "Three dots instead of ellipsis character",
     H018 |-> "Curly/straight quotes instead of angle quotes",
     H019 |-> "HTML tags in markdown content",
     H020 |-> "Image caption starts with lowercase letter",
     H021 |-> "Lowercase letter after sentence-ending punctuation",
     H022 |-> "Non-breaking space character found",
     H023 |-> "No empty line between paragraphs",
     H024 |-> "Capitalized Russian polite pronoun (use lowercase when addressing reader)",
     H025 |-> "Latin x or Cyrillic x used instead of multiplication sign " \o TIMES,
     H026 |-> "Image markdown ![ found not at start of line",
     H028 |-> "Horizontal bar " \o HBAR \o " (dialogue dash) should not be used",
     H029 |-> "Space required after " \o NUMERO,
     H030 |-> "Question mark followed by period (?.)"]

\* variant: the column is printed whenever the line is
format_error_mut_col(error_code, message, filename, root, line_num, col) ==
    <<get_relative_path(filename, root)>>
    \o (IF line_num > 0 THEN <<":", ToString(line_num), ":", ToString(col)>> ELSE <<>>)
    \o <<": ", error_code, " ", message>>

\* f"{location}: {error_code} {message}", as the sequence of its pieces
format_error(error_code, message, filename, root, line_num, col) ==
    <<get_relative_path(filename, root)>>
    \o (IF line_num > 0
        THEN <<":", ToString(line_num)>> \o (IF col > 0 THEN <<":", ToString(col)>> ELSE <<>>)
        ELSE <<>>)
    \o <<": ", error_code, " ", message>>

\* Reading a formatted diagnostic back: its code, line and column (0: omitted)
MaxNum == 60
ToInt(s) == CHOOSE n \in 0..MaxNum : ToString(n) = s
DiagCode(d) == d[Len(d) - 2]
DiagMessage(d) == d[Len(d)]
DiagLine(d) == IF Len(d) >= 7 THEN ToInt(d[3]) ELSE 0
DiagCol(d) == IF Len(d) >= 9 THEN ToInt(d[5]) ELSE 0
DiagPath(d) == d[1]

(***************************************************************************)
(* Activation policy.                                                      *)
(***************************************************************************)
\* an optional set argument: None, or a set of codes
None == [given |-> FALSE, codes |-> {}]
Given(S) == [given |-> TRUE, codes |-> S]

\* variant: select is taken as given, unknown codes included
determine_active_rules_mut_raw(select, exclude_rules, known) ==
    LET a == IF select.given THEN select.codes ELSE known
    IN IF exclude_rules.given THEN a \ exclude_rules.codes ELSE a

determine_active_rules(select, exclude_rules, known) ==
    LET a == IF select.given THEN select.codes \cap known ELSE known
    IN IF exclude_rules.given THEN a \ exclude_rules.codes ELSE a

\* The set objects after _determine_active_rules has run: the registry and the
\* caller's two sets, next to the set the function returns.  "select &
\* self.all_rules" and "self.all_rules.copy()" build a new set object, and
\* "active -= exclude_rules" changes the object the name active is bound to.
\* variant: without copy(), active is bound to the registry itself
determine_active_rules_objects_mut_alias(select, exclude_rules, known) ==
    LET objects == [all_rules |-> known, select |-> select.codes, exclude_rules |-> exclude_rules.codes,
                    new |-> select.codes \cap known]
        bound == IF select.given THEN "new" ELSE "all_rules"
        after == IF exclude_rules.given THEN [objects EXCEPT ![bound] = @ \ objects.exclude_rules] ELSE objects
    IN [all_rules |-> after.all_rules, select |-> after.select, exclude_rules |-> after.exclude_rules,
        active |-> after[bound]]

determine_active_rules_objects(select, exclude_rules, known) ==
    LET objects == [all_rules |-> known, select |-> select.codes, exclude_rules |-> exclude_rules.codes,
                    new |-> IF select.given THEN select.codes \cap known ELSE known]
        bound == "new"
        after == IF exclude_rules.given THEN [objects EXCEPT ![bound] = @ \ objects.exclude_rules] ELSE objects
    IN [all_rules |-> after.all_rules, select |-> after.select, exclude_rules |-> after.exclude_rules,
        active |-> after[bound]]

\* the registry after n calls of check in a row with the same two sets
RECURSIVE RegistryAfter(_, _, _, _)
RegistryAfter(select, exclude_rules, known, n) ==
    IF n = 0 THEN known
    ELSE determine_active_rules_objects(select, exclude_rules, RegistryAfter(select, exclude_rules, known, n - 1)).all_rules

(***************************************************************************)
(* Segmenter.                                                              *)
(***************************************************************************)
\* note.split("---", 2), then the middle part between two "---"
split_yaml_content(note) ==
    LET i == find(note, DASH3)
        rest1 == From(note, i + 3)
        j == find(rest1, DASH3)
    IN IF i = -1 \/ j = -1 THEN <<<<>>, note>>
       ELSE <<DASH3 \o SubSeq(rest1, 1, j) \o DASH3, lstrip(From(rest1, j + 3))>>

\* the numbers (2-based, as enumerate(lines[1:], 2) counts) of the later "---" lines
LaterDashLines(lines) == {i \in 2..Len(lines) : strip(lines[i]) = DASH3}

find_yaml_end_line(lines) ==
    IF lines = <<>> \/ strip(lines[1]) # DASH3 THEN 1
    ELSE IF LaterDashLines(lines) # {} THEN SetMin(LaterDashLines(lines)) + 1
    ELSE Len(lines) + 1

find_yaml_block_end_line(all_lines) ==
    IF all_lines = <<>> \/ strip(all_lines[1]) # DASH3 THEN 1
    ELSE IF LaterDashLines(all_lines) # {} THEN SetMin(LaterDashLines(all_lines))
    ELSE Len(all_lines)

\* variant: the content lines are all the lines of the file
ContentLines_mut_all(all_lines, yaml_end_line) ==
    all_lines

\* content_lines = all_lines[yaml_end_line - 1 :] if yaml_end_line > 1 else all_lines
ContentLines(all_lines, yaml_end_line) ==
    IF yaml_end_line > 1 THEN From(all_lines, yaml_end_line - 1) ELSE all_lines

\* re.match(r"^(`{3,})(.*)", line): the delimiter's length, 0 when no match
FenceRun(line) == IF RunLength(line, BT) >= 3 THEN RunLength(line, BT) ELSE 0

\* variant: any fence line closes an open fence
FenceStep_mut_any(delim, line) ==
    IF FenceRun(line) = 0 THEN delim
    ELSE IF delim = 0 THEN FenceRun(line)
    ELSE 0

\* One step of the walk over the lines: the delimiter after the line (0: none)
FenceStep(delim, line) ==
    IF FenceRun(line) = 0 THEN delim
    ELSE IF delim = 0 THEN FenceRun(line)
    ELSE IF delim = FenceRun(line) THEN 0
    ELSE delim

\* the delimiter in force after lines[1..n]
RECURSIVE DelimAfter(_, _)
DelimAfter(lines, n) == IF n = 0 THEN 0 ELSE FenceStep(DelimAfter(lines, n - 1), lines[n])

\* identify_code_blocks(lines): the flag yielded with each line
identify_code_blocks(lines) ==
    [n \in 1..Len(lines) |-> FenceRun(lines[n]) > 0 \/ DelimAfter(lines, n - 1) > 0]


\* concatenation of f[lo], ..., f[hi]: what a loop over lo..hi yields
RECURSIVE ConcatRange(_, _, _)
ConcatRange(f, lo, hi) == IF lo > hi THEN <<>> ELSE f[lo] \o ConcatRange(f, lo + 1, hi)

\* s.startswith((p1, p2, ...))
startswithAny(s, ps) == \E p \in ps : startswith(s, p)

(***************************************************************************)
(* yaml.safe_load, on the block-mapping fragment of YAML the modelled front *)
(* matter uses: blank lines, a leading "---" document marker, top-level     *)
(* "key: value" lines and plain scalar lines.                               *)
(***************************************************************************)
\* the indexes of a ":" that ends the line or is followed by a space
KeyColons(line) ==
    {i \in 0..(Len(line) - 1) : line[i + 1] = ":" /\ (i = Len(line) - 1 \/ line[i + 2] = " ")}

YamlKey(line) == strip(SubSeq(line, 1, SetMin(KeyColons(line))))
YamlValue(line) == strip(From(line, SetMin(KeyColons(line)) + 1))

\* the lines of the text that carry a node
RECURSIVE DropDocStart(_)
DropDocStart(lines) ==
    IF lines # <<>> /\ (strip(lines[1]) = <<>> \/ rstrip(lines[1]) = DASH3)
    THEN DropDocStart(Tail(lines)) ELSE lines

NodeLines(text) == SelectSeq(DropDocStart(splitlines(text)), LAMBDA l : strip(l) # <<>>)

LangEntries(ls) == {i \in 1..Len(ls) : KeyColons(ls[i]) # {} /\ YamlKey(ls[i]) = <<"l", "a", "n", "g">>}

\* [kind |-> "none" | "map" | "scalar" | "error", lang |-> the value of key lang]
safe_load(text) ==
    LET ls == NodeLines(text)
        kv == {i \in 1..Len(ls) : KeyColons(ls[i]) # {}}
    IN IF ls = <<>> THEN [kind |-> "none", lang |-> <<>>]
       ELSE IF \E i \in 1..Len(ls) : rstrip(ls[i]) = DASH3 \/ IsSpace(ls[i][1])
            THEN [kind |-> "error", lang |-> <<>>]
       ELSE IF ls[1][1] = BT   \* a reserved indicator cannot start a node
            THEN [kind |-> "error", lang |-> <<>>]
       ELSE IF kv = {} THEN [kind |-> "scalar", lang |-> <<>>]
       ELSE IF kv # 1..Len(ls) THEN [kind |-> "error", lang |-> <<>>]
       ELSE IF \E i \in kv : KeyColons(YamlValue(ls[i])) # {}
            THEN [kind |-> "error", lang |-> <<>>]
       ELSE [kind |-> "map",
             lang |-> IF LangEntries(ls) = {} THEN <<>> ELSE YamlValue(ls[SetMax(LangEntries(ls))])]

\* yaml_part.replace("---\n", "").replace("\n---", "")
YamlBody(yaml_part) == replace(replace(yaml_part, <<"-", "-", "-", NL>>, <<>>), <<NL, "-", "-", "-">>, <<>>)

\* yaml.safe_load(...) if yaml_part else None
LoadYaml(yaml_part) ==
    IF yaml_part # <<>> THEN safe_load(YamlBody(yaml_part)) ELSE [kind |-> "none", lang |-> <<>>]

\* variant: lang is read off the "lang:" line, whether or not the block parses
LangOf_mut_lenient(yaml_part) ==
    IF LangEntries(NodeLines(YamlBody(yaml_part))) = {} THEN <<>>
    ELSE YamlValue(NodeLines(YamlBody(yaml_part))[SetMax(LangEntries(NodeLines(YamlBody(yaml_part))))])

\* lang = (yaml_data or {}).get("lang") or "", "" when anything raises
LangOf(yaml_part) == IF LoadYaml(yaml_part).kind = "map" THEN LoadYaml(yaml_part).lang ELSE <<>>

(***************************************************************************)
(* Filename rules (H001, H002).                                            *)
(***************************************************************************)
\* variant: H002 is reported whether or not it is active
check_filename_rules_mut_all(filename, root, rules) ==
    (IF "H001" \in rules /\ contains(PathName(filename), <<" ">>)
     THEN <<format_error("H001", RULES.H001, filename, root, 0, 0)>> ELSE <<>>)
    \o (IF contains(PathStr(filename), <<" ">>)
        THEN <<format_error("H002", RULES.H002, filename, root, 0, 0)>> ELSE <<>>)

check_filename_rules(filename, root, rules) ==
    (IF "H001" \in rules /\ contains(PathName(filename), <<" ">>)
     THEN <<format_error("H001", RULES.H001, filename, root, 0, 0)>> ELSE <<>>)
    \o (IF "H002" \in rules /\ contains(PathStr(filename), <<" ">>)
        THEN <<format_error("H002", RULES.H002, filename, root, 0, 0)>> ELSE <<>>)

(***************************************************************************)
(* YAML rules (H003-H005).  A generator's result is the diagnostics it      *)
(* yielded and whether it then raised.                                      *)
(***************************************************************************)
Yielded(ds) == [diags |-> ds, raised |-> FALSE]
Raised(ds) == [diags |-> ds, raised |-> TRUE]

\* the numbers of the front matter lines that start with "lang:"
LangFieldLines(all_lines) ==
    {i \in 2..Len(all_lines) :
        /\ startswith(strip(all_lines[i]), <<"l", "a", "n", "g", ":">>)
        /\ \A k \in 2..i : strip(all_lines[k]) # DASH3}

find_yaml_field_line_in_original(all_lines) ==
    IF all_lines = <<>> \/ strip(all_lines[1]) # DASH3 THEN 1
    ELSE IF LangFieldLines(all_lines) # {} THEN SetMin(LangFieldLines(all_lines))
    ELSE 2

\* re.search(r"lang:\s*(.+)", line): match.start(1) + 1, or 1
find_yaml_field_column(all_lines, line_num) ==
    IF line_num > Len(all_lines) THEN 1
    ELSE LET line == all_lines[line_num]
             starts == {k \in Occurrences(line, <<"l", "a", "n", "g", ":">>) : k + 5 < Len(line)}
         IN IF starts = {} THEN 1
            ELSE LET k == SetMin(starts)
                     rest == From(line, k + 5)
                     ws == Len(rest) - Len(lstrip(rest))
                 IN IF ws < Len(rest) THEN k + 5 + ws + 1 ELSE k + 5 + ws

check_yaml_rules(filename, root, yaml_content, all_lines, rules) ==
    LET data == LoadYaml(yaml_content)
    IN CASE data.kind = "error" ->
              Yielded(<<format_error("H000", "YAML parsing error: <reason>", filename, root, 1, 0)>>)
         [] data.kind = "none" ->
              Yielded(IF "H003" \in rules
                      THEN <<format_error("H003", RULES.H003, filename, root, 1, 0)>> ELSE <<>>)
         [] data.kind = "scalar" -> Raised(<<>>)   \* data.get: AttributeError
         [] data.kind = "map" ->
              Yielded(IF "H004" \in rules /\ data.lang = <<>>
                      THEN <<format_error("H004", RULES.H004, filename, root,
                                          find_yaml_block_end_line(all_lines), 0)>>
                      ELSE IF "H005" \in rules /\ data.lang # <<>>
                              /\ data.lang \notin {<<"e", "n">>, <<"r", "u">>}
                      THEN LET line_num == find_yaml_field_line_in_original(all_lines)
                           IN <<format_error("H005", RULES.H005, filename, root, line_num,
                                             find_yaml_field_column(all_lines, line_num))>>
                      ELSE <<>>)

(***************************************************************************)
(* File-level rules (H011, H012) and the rules of every line.              *)
(***************************************************************************)
\* variant: a pair that starts on the first line is reported too
check_file_level_rules_mut_first(filename, root, all_lines, rules, text) ==
    (IF "H011" \in rules /\ all_lines # <<>> /\ ~endswith(text, <<NL>>)
     THEN <<format_error("H011", RULES.H011, filename, root, Len(all_lines), 0)>> ELSE <<>>)
    \o (IF "H012" \in rules
        THEN ConcatRange([i \in 0..(Len(all_lines) - 2) |->
                 IF /\ strip(all_lines[i + 1]) = <<>> /\ strip(all_lines[i + 2]) = <<>>
                    /\ i + 1 < Len(all_lines) - 1
                 THEN <<format_error("H012", RULES.H012, filename, root, i + 1, 0)>> ELSE <<>>],
                 0, Len(all_lines) - 2)
        ELSE <<>>)

check_file_level_rules(filename, root, all_lines, rules, text) ==
    (IF "H011" \in rules /\ all_lines # <<>> /\ ~endswith(text, <<NL>>)
     THEN <<format_error("H011", RULES.H011, filename, root, Len(all_lines), 0)>> ELSE <<>>)
    \o (IF "H012" \in rules
        THEN ConcatRange([i \in 0..(Len(all_lines) - 2) |->
                 IF /\ strip(all_lines[i + 1]) = <<>> /\ strip(all_lines[i + 2]) = <<>>
                    /\ i > 0 /\ i + 1 < Len(all_lines) - 1
                 THEN <<format_error("H012", RULES.H012, filename, root, i + 1, 0)>> ELSE <<>>],
                 0, Len(all_lines) - 2)
        ELSE <<>>)

check_all_lines_rules(filename, root, line, line_num, rules) ==
    (IF "H008" \in rules /\ line # rstrip(line)
     THEN <<format_error("H008", RULES.H008, filename, root, line_num, Len(rstrip(line)) + 1)>>
     ELSE <<>>)
    \o (IF "H010" \in rules /\ contains(line, <<TAB>>)
        THEN <<format_error("H010", RULES.H010, filename, root, line_num, find(line, <<TAB>>) + 1)>>
        ELSE <<>>)
    \o (IF "H022" \in rules /\ contains(line, <<NBSP>>)
        THEN <<format_error("H022", RULES.H022, filename, root, line_num, find(line, <<NBSP>>) + 1)>>
        ELSE <<>>)

(***************************************************************************)
(* Code block rules (H007).                                                *)
(***************************************************************************)
INCORRECT_LANGUAGES ==
    {[wrong |-> <<"c", "o", "n", "s", "o", "l", "e">>, right |-> "shell"], [wrong |-> <<"p", "y">>, right |-> "python"]}

\* the longest prefix of word characters: what (\w+)? matches
RECURSIVE WordPrefix(_)
WordPrefix(s) == IF s # <<>> /\ IsWordChar(Head(s)) THEN <<Head(s)>> \o WordPrefix(Tail(s)) ELSE <<>>

check_code_rules(filename, root, all_lines, yaml_end_line, rules) ==
    LET content_lines == ContentLines(all_lines, yaml_end_line)
    IN ConcatRange([i \in 0..(Len(content_lines) - 1) |->
           LET line == content_lines[i + 1]
               actual_line_num == (yaml_end_line - 1) + i + 1
               language == WordPrefix(From(line, RunLength(line, BT)))
           IN IF /\ "H007" \in rules
                 /\ startswith(strip(line), FENCE3)
                 /\ FenceRun(line) > 0
                 /\ \E e \in INCORRECT_LANGUAGES : e.wrong = language
              THEN LET e == CHOOSE e \in INCORRECT_LANGUAGES : e.wrong = language
                   IN <<format_error("H007",
                          RULES.H007 \o ": \"" \o Flat(language) \o "\" should be \"" \o e.right \o "\"",
                          filename, root, actual_line_num, RunLength(line, BT) + 1)>>
              ELSE <<>>],
           0, Len(content_lines) - 1)


(***************************************************************************)
(* Inline-code partition of one line.                                      *)
(***************************************************************************)
\* the 0-based starts of the maximal backtick runs of s whose length is n
ExactRuns(s, n) ==
    {p \in 0..(Len(s) - n) :
        /\ \A k \in 1..n : s[p + k] = BT
        /\ (p = 0 \/ s[p] # BT)
        /\ (p + n = Len(s) \/ s[p + n + 1] # BT)}

\* identify_code_blocks_line(markdown_line): the (segment, in_code) pieces
RECURSIVE identify_code_blocks_line(_)
identify_code_blocks_line(s) ==
    IF s = <<>> THEN <<>>
    ELSE LET b == find(s, <<BT>>)
         IN IF b = -1 THEN <<<<s, FALSE>>>>
            ELSE LET n == RunLength(From(s, b), BT)
                     after == From(s, b + n)
                     closers == ExactRuns(after, n)
                 IN IF closers = {} THEN <<<<s, FALSE>>>>
                    ELSE LET e == b + n + SetMin(closers) + n
                         IN (IF b > 0 THEN <<<<SubSeq(s, 1, b), FALSE>>>> ELSE <<>>)
                            \o <<<<SubSeq(s, b + 1, e), TRUE>>>>
                            \o identify_code_blocks_line(From(s, e))

\* the running offset a rule has accumulated when it reaches piece k (1-based):
\* the sum of the lengths of the pieces before it
RECURSIVE OffsetBefore(_, _)
OffsetBefore(pieces, k) ==
    IF k <= 1 THEN 0 ELSE OffsetBefore(pieces, k - 1) + Len(pieces[k - 1][1])

\* code_ranges of a line: the index sets [pos, pos + len(segment)) of its code pieces
code_ranges(line) ==
    LET pieces == identify_code_blocks_line(line)
    IN {<<OffsetBefore(pieces, k), OffsetBefore(pieces, k) + Len(pieces[k][1])>> :
          k \in {j \in 1..Len(pieces) : pieces[j][2]}}

inside_inline_code(line, offset) == \E r \in code_ranges(line) : r[1] <= offset /\ offset < r[2]

RECURSIVE ConcatProse(_)
ConcatProse(pieces) ==
    IF pieces = <<>> THEN <<>>
    ELSE (IF pieces[1][2] THEN <<>> ELSE pieces[1][1]) \o ConcatProse(Tail(pieces))

remove_inline_code(line) == ConcatProse(identify_code_blocks_line(line))

\* re.sub(open [^close]* close, repl, s): open a literal, close one code point
RECURSIVE SubDelimited(_, _, _, _)
SubDelimited(s, open, close, repl) ==
    IF s = <<>> THEN <<>>
    ELSE IF startswith(s, open) /\ contains(From(s, Len(open)), <<close>>)
    THEN repl \o SubDelimited(From(s, Len(open) + find(From(s, Len(open)), <<close>>) + 1),
                              open, close, repl)
    ELSE <<Head(s)>> \o SubDelimited(Tail(s), open, close, repl)

\* the line without inline code, link targets and angle-bracket contents
CleanLine(line) ==
    SubDelimited(SubDelimited(remove_inline_code(line), <<"]", "(">>, ")", <<"]", "(", ")">>),
                 <<"<">>, ">", <<"<", ">">>)


(***************************************************************************)
(* Rules of the lines outside fenced code.                                 *)
(***************************************************************************)
\* The entries of INCORRECT_WORDS whose letters the modelled texts use, in
\* the dictionary's order.
INCORRECT_WORDS ==
    <<[wrong |-> <<"c", "s", "s">>, right |-> "CSS"],
      [wrong |-> <<"c", "+", "+">>, right |-> "C++"],
      [wrong |-> <<"o", "k">>, right |-> "OK"],
      [wrong |-> <<"O", "k">>, right |-> "OK"],
      [wrong |-> <<"i", "d">>, right |-> "ID"],
      [wrong |-> <<"q", "t">>, right |-> "Qt"],
      [wrong |-> <<"g", "i", "t">>, right |-> "Git"]>>

\* The starts of the matches of \bword\b, and of the look-around pattern the
\* other words get: the word with no word character next to it on either side.
WordMatches(s, w) ==
    {i \in Occurrences(s, w) :
        /\ (i = 0 \/ ~IsWordChar(s[i]))
        /\ (i + Len(w) = Len(s) \/ ~IsWordChar(s[i + Len(w) + 1]))}

\* H006: searched in clean_line, located by re.search in the original line
check_incorrect_words(filename, root, line, clean_line, line_num) ==
    ConcatRange([k \in 1..(Len(INCORRECT_WORDS)) |->
        LET e == INCORRECT_WORDS[k]
        IN IF WordMatches(clean_line, e.wrong) # {}
           THEN <<format_error("H006",
                     RULES.H006 \o ": \"" \o Flat(e.wrong) \o "\" should be \"" \o e.right \o "\"",
                     filename, root, line_num,
                     IF WordMatches(line, e.wrong) # {}
                     THEN SetMin(WordMatches(line, e.wrong)) + 1 ELSE 1)>>
           ELSE <<>>],
        1, Len(INCORRECT_WORDS))

\* H009
check_double_spaces(filename, root, line, line_num, content_lines, line_index) ==
    IF ~contains(line, <<" ", " ">>) THEN <<>>
    ELSE IF startswithAny(line, {<<" ", " ">>, <<" ", " ", "*">>, <<" ", " ", "-">>}) THEN <<>>
    ELSE IF line_index > 0
            /\ (startswith(strip(content_lines[line_index]), <<"*">>)
                \/ startswith(strip(content_lines[line_index]), <<"-">>)) THEN <<>>
    ELSE IF startswith(strip(line), <<"|">>) THEN <<>>
    ELSE <<format_error("H009", RULES.H009, filename, root, line_num, find(line, <<" ", " ">>) + 1)>>

should_check_paragraph_end(line) ==
    /\ strip(line) # <<>>
    /\ strip(line) # FENCE3
    /\ ~startswith(strip(line), <<"!", "[">>)
    /\ ~startswith(strip(line), <<"#">>)

CodeMarkers ==
    {<<"[", "!", "D", "E", "T", "A", "I", "L", "S", "]">>, <<"[", "!", "W", "A", "R", "N", "I", "N", "G", "]">>, <<"[", "!", "I", "M", "P", "O", "R", "T", "A", "N", "T", "]">>, <<"[", "!", "N", "O", "T", "E", "]">>,
     <<"<", "!", "-", "-", " ", "!", "d", "e", "t", "a", "i", "l", "s", " ", "-", "-", ">">>, <<"<", "!", "-", "-", " ", "!", "n", "o", "t", "e", " ", "-", "-", ">">>, <<"<", "!", "-", "-", " ", "!", "i", "m", "p", "o", "r", "t", "a", "n", "t", " ", "-", "-", ">">>, <<"<", "!", "-", "-", " ", "!", "w", "a", "r", "n", "i", "n", "g", " ", "-", "-", ">">>}

ImageMarkers ==
    {<<"<", "!", "-", "-", " ", "!", "d", "e", "t", "a", "i", "l", "s", " ", "-", "-", ">">>, <<"<", "!", "-", "-", " ", "!", "n", "o", "t", "e", " ", "-", "-", ">">>, <<"<", "!", "-", "-", " ", "!", "i", "m", "p", "o", "r", "t", "a", "n", "t", " ", "-", "-", ">">>, <<"<", "!", "-", "-", " ", "!", "w", "a", "r", "n", "i", "n", "g", " ", "-", "-", ">">>}

\* line.rstrip()[-1] if line.rstrip() else ""
LastChar(line) == IF rstrip(line) = <<>> THEN "" ELSE rstrip(line)[Len(rstrip(line))]

\* variant: a list item needs no colon before a code block
check_colon_before_code_mut_list(filename, root, line, line_num, content_lines, line_index) ==
    IF line_index + 2 >= Len(content_lines) THEN <<>>
    ELSE IF ~should_check_paragraph_end(line) THEN <<>>
    ELSE IF /\ strip(content_lines[line_index + 2]) = <<>>
            /\ startswith(strip(content_lines[line_index + 3]), FENCE3)
            /\ ~(\E m \in CodeMarkers : contains(line, m))
            /\ ~startswith(strip(line), <<"<">>)
            /\ ~startswith(strip(line), <<"-", " ">>)
            /\ LastChar(line) # ":"
    THEN <<format_error("H013", RULES.H013 \o ": last char is \"" \o LastChar(line) \o "\"",
                        filename, root, line_num, Len(rstrip(line)))>>
    ELSE <<>>

\* H013; code_block_info holds one entry per content line
check_colon_before_code(filename, root, line, line_num, content_lines, line_index) ==
    IF line_index + 2 >= Len(content_lines) THEN <<>>
    ELSE IF ~should_check_paragraph_end(line) THEN <<>>
    ELSE IF /\ strip(content_lines[line_index + 2]) = <<>>
            /\ startswith(strip(content_lines[line_index + 3]), FENCE3)
            /\ ~(\E m \in CodeMarkers : contains(line, m))
            /\ ~startswith(strip(line), <<"<">>)
            /\ LastChar(line) # ":"
    THEN <<format_error("H013", RULES.H013 \o ": last char is \"" \o LastChar(line) \o "\"",
                        filename, root, line_num, Len(rstrip(line)))>>
    ELSE <<>>

MIN_ITALIC_CAPTION_LEN == 2

\* H014
check_colon_before_image(filename, root, line, line_num, content_lines, line_index) ==
    IF line_index + 2 >= Len(content_lines) THEN <<>>
    ELSE IF ~should_check_paragraph_end(line) THEN <<>>
    ELSE IF /\ strip(content_lines[line_index + 2]) = <<>>
            /\ startswith(strip(content_lines[line_index + 3]), <<"!", "[">>)
            /\ ~(\E m \in ImageMarkers : contains(line, m))
            /\ ~startswith(strip(line), <<"<">>)
            /\ ~(/\ Len(strip(line)) >= MIN_ITALIC_CAPTION_LEN
                 /\ startswith(strip(line), <<"_">>) /\ endswith(strip(line), <<"_">>))
            /\ ~startswith(strip(line), <<"-", " ">>)
            /\ LastChar(line) # ":"
    THEN <<format_error("H014", RULES.H014 \o ": last char is \"" \o LastChar(line) \o "\"",
                        filename, root, line_num, Len(rstrip(line)))>>
    ELSE <<>>

\* H015: for each mark the first " <mark>" of the line, unless it starts in inline code
PunctuationPatterns == <<<<" ", ".">>, <<" ", ",">>, <<" ", ";">>, <<" ", ":">>, <<" ", "?">>>>
BangExceptions == {<<" ", "!", "d", "e", "t", "a", "i", "l", "s">>, <<" ", "!", "n", "o", "t", "e">>, <<" ", "!", "i", "m", "p", "o", "r", "t", "a", "n", "t">>, <<" ", "!", "w", "a", "r", "n", "i", "n", "g">>}

check_space_before_punctuation(filename, root, line, line_num) ==
    ConcatRange([k \in 1..(Len(PunctuationPatterns)) |->
        LET p == PunctuationPatterns[k]
        IN IF contains(line, p) /\ ~inside_inline_code(line, find(line, p))
           THEN <<format_error("H015", RULES.H015 \o ": found \"" \o Flat(p) \o "\"",
                               filename, root, line_num, find(line, p) + 1)>>
           ELSE <<>>],
        1, Len(PunctuationPatterns))
    \o (IF /\ contains(line, <<" ", "!">>)
           /\ ~inside_inline_code(line, find(line, <<" ", "!">>))
           /\ ~startswithAny(From(line, find(line, <<" ", "!">>)), BangExceptions)
           /\ ~startswith(strip(line), <<"!">>)
        THEN <<format_error("H015", RULES.H015 \o ": found \" !\"",
                            filename, root, line_num, find(line, <<" ", "!">>) + 1)>>
        ELSE <<>>)


\* the members of a finite set of integers in increasing order
RECURSIVE SortedSeq(_)
SortedSeq(S) == IF S = {} THEN <<>> ELSE <<SetMin(S)>> \o SortedSeq(S \ {SetMin(S)})

\* str.split(c), c one code point
RECURSIVE split(_, _)
split(s, c) ==
    IF find(s, <<c>>) = -1 THEN <<s>>
    ELSE <<SubSeq(s, 1, find(s, <<c>>))>> \o split(From(s, find(s, <<c>>) + 1), c)

\* the start the loop of _is_table_cell_only_dash has reached at part k (1-based)
RECURSIVE PartStart(_, _)
PartStart(parts, k) == IF k <= 1 THEN 0 ELSE PartStart(parts, k - 1) + Len(parts[k - 1]) + 1

is_table_cell_only_dash(line, pos) ==
    LET parts == split(line, "|")
        hit == {k \in 1..Len(parts) : PartStart(parts, k) <= pos /\ pos < PartStart(parts, k) + Len(parts[k])}
    IN IF Len(parts) < 2 \/ hit = {} THEN FALSE
       ELSE strip(parts[SetMin(hit)]) = <<"-">>

\* H016, first loop: " - " in a prose piece
HyphenCandidates(line) ==
    LET pieces == identify_code_blocks_line(line)
    IN {k \in 1..Len(pieces) :
          /\ ~pieces[k][2]
          /\ contains(pieces[k][1], <<" ", "-", " ">>)
          /\ ~startswith(strip(pieces[k][1]), <<"-">>)
          /\ ~(contains(line, <<"|">>)
               /\ is_table_cell_only_dash(line, OffsetBefore(pieces, k) + find(pieces[k][1], <<" ", "-", " ">>)))}

\* H016, second loop: " MINUS " and " -- " in a prose piece
DoubleHyphenCandidates(line) ==
    LET pieces == identify_code_blocks_line(line)
    IN {k \in 1..Len(pieces) :
          ~pieces[k][2] /\ (contains(pieces[k][1], <<" ", MINUS, " ">>) \/ contains(pieces[k][1], <<" ", "-", "-", " ">>))}

\* clean_line[i] if 0 <= i < len(clean_line) else dflt
CharOr(s, i, dflt) == IF i >= 0 /\ i < Len(s) THEN s[i + 1] ELSE dflt

\* line_matches[i].start() if i < len(line_matches) else pos, i 0-based
ColPos(line, c, i, pos) ==
    IF i < Cardinality(Occurrences(line, <<c>>)) THEN SortedSeq(Occurrences(line, <<c>>))[i + 1] ELSE pos

check_dash_usage(filename, root, line, clean_line, line_num) ==
    LET pieces == identify_code_blocks_line(line)
        h == HyphenCandidates(line)
        d == DoubleHyphenCandidates(line)
        en == SortedSeq(Occurrences(clean_line, <<ENDASH>>))
        em == SortedSeq(Occurrences(clean_line, <<EMDASH>>))
    IN (IF h # {}
        THEN <<format_error("H016", RULES.H016 \o ": \" - \" should be \" " \o EMDASH \o " \" (em dash)", filename, root, line_num,
                  OffsetBefore(pieces, SetMin(h)) + find(pieces[SetMin(h)][1], <<" ", "-", " ">>) + 1)>>
        ELSE <<>>)
       \o (IF d # {}
           THEN LET seg == pieces[SetMin(d)][1]
                IN IF contains(seg, <<" ", MINUS, " ">>)
                   THEN <<format_error("H016", RULES.H016 \o ": \" " \o MINUS \o " \" (minus) should be \" " \o EMDASH \o " \" (em dash)", filename, root,
                             line_num, OffsetBefore(pieces, SetMin(d)) + find(seg, <<" ", MINUS, " ">>) + 1)>>
                   ELSE <<format_error("H016", RULES.H016 \o ": \" -- \" should be \" " \o EMDASH \o " \" (em dash)", filename, root,
                             line_num, OffsetBefore(pieces, SetMin(d)) + find(seg, <<" ", "-", "-", " ">>) + 1)>>
           ELSE <<>>)
       \o ConcatRange([i \in 0..(Len(en) - 1) |->
              IF ~(IsDigit(CharOr(clean_line, en[i + 1] - 1, "")) /\ IsDigit(CharOr(clean_line, en[i + 1] + 1, "")))
              THEN <<format_error("H016", RULES.H016 \o ": en dash \"" \o ENDASH \o "\" should only be between digits",
                        filename, root, line_num, ColPos(line, ENDASH, i, en[i + 1]) + 1)>>
              ELSE <<>>],
              0, Len(en) - 1)
       \o ConcatRange([i \in 0..(Len(em) - 1) |->
              IF em[i + 1] = 0
              THEN IF CharOr(clean_line, 1, " ") # " "
                   THEN <<format_error("H016", RULES.H016 \o ": em dash \"" \o EMDASH \o "\" at start should be followed by space",
                             filename, root, line_num, ColPos(line, EMDASH, i, em[i + 1]) + 1)>>
                   ELSE <<>>
              ELSE IF ~(CharOr(clean_line, em[i + 1] - 1, " ") = " " /\ CharOr(clean_line, em[i + 1] + 1, " ") = " ")
                   THEN <<format_error("H016", RULES.H016 \o ": em dash \"" \o EMDASH \o "\" should have spaces around it",
                             filename, root, line_num, ColPos(line, EMDASH, i, em[i + 1]) + 1)>>
                   ELSE <<>>],
              0, Len(em) - 1)

\* H017, both checks
check_ellipsis(filename, root, line, clean_line, line_num) ==
    (IF contains(clean_line, <<".", ".", ".">>)
     THEN <<format_error("H017", RULES.H017 \o ": \"...\" should be \"" \o ELLIPSIS \o "\"", filename, root, line_num,
               IF contains(line, <<".", ".", ".">>) THEN find(line, <<".", ".", ".">>) + 1 ELSE find(clean_line, <<".", ".", ".">>) + 1)>>
     ELSE <<>>)
    \o (IF endswith(rstrip(clean_line), <<ELLIPSIS>>)
        THEN <<format_error("H017", RULES.H017 \o ": ellipsis \"" \o ELLIPSIS \o "\" at end of line", filename, root, line_num,
                  rfind(rstrip(line), <<ELLIPSIS>>) + 1)>>
        ELSE <<>>)

\* H018
incorrect_quotes ==
    <<[char |-> <<DQUOTE>>, description |-> "straight double quote \""],
      [char |-> <<LDQUO>>, description |-> "curly quote " \o LDQUO],
      [char |-> <<RDQUO>>, description |-> "curly quote " \o RDQUO],
      [char |-> <<LAQUO, " ">>, description |-> "space after " \o LAQUO],
      [char |-> <<" ", RAQUO>>, description |-> "space before " \o RAQUO]>>

check_quotes(filename, root, line, clean_line, line_num) ==
    ConcatRange([k \in 1..(Len(incorrect_quotes)) |->
        LET q == incorrect_quotes[k]
        IN IF contains(clean_line, q.char)
           THEN <<format_error("H018", RULES.H018 \o ": found " \o q.description, filename, root, line_num,
                     (IF contains(line, q.char) THEN find(line, q.char) ELSE find(clean_line, q.char)) + 1)>>
           ELSE <<>>],
        1, Len(incorrect_quotes))

\* H019
FORBIDDEN_HTML_TAGS ==
    <<<<"<", "p", "r", "e", " ", "c", "l", "a", "s", "s">>, <<"<", "t", "a", "b", "l", "e">>, <<"<", "s", "t", "r", "o", "n", "g">>, <<"<", "b", ">">>, <<"<", "b", " ">>, <<"<", "a", ">">>, <<"<", "a", " ">>, <<"<", "i", ">">>,
      <<"<", "i", " ">>, <<"<", "p", ">">>, <<"<", "p", " ">>, <<"<", "h", "1">>, <<"<", "h", "2">>, <<"<", "h", "3">>, <<"<", "h", "4">>, <<"<", "h", "5">>, <<"<", "h", "6">>, <<"<", "/">>>>

AllowedTags == {<<"<", "d", "e", "t", "a", "i", "l", "s">>, <<"<", "d", "e", "t", "a", "i", "l", "s", ">">>, <<"<", "/", "d", "e", "t", "a", "i", "l", "s", ">">>, <<"<", "s", "u", "m", "m", "a", "r", "y">>, <<"<", "s", "u", "m", "m", "a", "r", "y", ">">>, <<"<", "/", "s", "u", "m", "m", "a", "r", "y", ">">>}

check_html_tags(filename, root, line, line_num) ==
    ConcatRange([k \in 1..(Len(FORBIDDEN_HTML_TAGS)) |->
        LET tag == lower(FORBIDDEN_HTML_TAGS[k])
            pos == find(lower(line), tag)
        IN IF pos # -1 /\ ~startswithAny(From(lower(line), pos), AllowedTags)
           THEN <<format_error("H019", RULES.H019 \o ": found \"" \o Flat(FORBIDDEN_HTML_TAGS[k]) \o "\"",
                     filename, root, line_num, pos + 1)>>
           ELSE <<>>],
        1, Len(FORBIDDEN_HTML_TAGS))

\* H020: re.match(r"!\[([^\]]*)\]", line.strip())
check_image_caption(filename, root, line, line_num) ==
    LET s == strip(line)
        close == find(From(s, 2), <<"]">>)
    IN IF /\ startswith(s, <<"!", "[">>)
          /\ close > 0
          /\ IsAlpha(s[3]) /\ IsLower(s[3])
       THEN <<format_error("H020", RULES.H020 \o ": caption starts with \"" \o s[3] \o "\"",
                 filename, root, line_num, 3)>>
       ELSE <<>>


\* H021: the matches of [.!?]\s+([a-z...]) in s from index i on, as <<start, letter index>>
NextNonSpace(s, i) == SetMin({j \in i..Len(s) : j = Len(s) \/ ~IsSpace(s[j + 1])})

SentenceMatchAt(s, i) ==
    /\ s[i + 1] \in {".", "!", "?"}
    /\ i + 1 < Len(s) /\ IsSpace(s[i + 2])
    /\ NextNonSpace(s, i + 1) < Len(s)
    /\ IsLower(s[NextNonSpace(s, i + 1) + 1])

RECURSIVE SentenceMatches(_, _)
SentenceMatches(s, i) ==
    IF i >= Len(s) THEN <<>>
    ELSE IF SentenceMatchAt(s, i)
    THEN <<<<i, NextNonSpace(s, i + 1)>>>> \o SentenceMatches(s, NextNonSpace(s, i + 1) + 1)
    ELSE SentenceMatches(s, i + 1)

\* The exceptions the modelled texts can spell (the Cyrillic ones need letters
\* outside the modelled code points).
SentenceExceptions == {<<"e", ".", "g", ".">>, <<"i", ".", "e", ".">>}

check_lowercase_after_punctuation(filename, root, line, clean_line, line_num) ==
    LET ms == SentenceMatches(clean_line, 0)
    IN ConcatRange([k \in 1..(Len(ms)) |->
           LET pos == ms[k][1]
               letter == ms[k][2]
               context_before == SubSeq(clean_line, (IF pos - 4 > 0 THEN pos - 4 ELSE 0) + 1, pos + 1)
               text == SubSeq(clean_line, pos + 1, letter + 1)
           IN IF \E e \in SentenceExceptions : contains(context_before, e) THEN <<>>
              ELSE <<format_error("H021",
                        RULES.H021 \o ": found lowercase \"" \o clean_line[letter + 1] \o "\" after punctuation",
                        filename, root, line_num,
                        IF contains(line, text) THEN find(line, text) + (letter - pos) + 1 ELSE letter + 1)>>],
           1, Len(ms))

\* H024.  Of RUSSIAN_POLITE_PRONOUNS_CAPITALIZED the modelled texts can spell the first.
RUSSIAN_POLITE_PRONOUNS_CAPITALIZED == <<<<CYR_VE, CYR_YERU>>>>

at_sentence_start(line, match_start) ==
    LET text_before == SubSeq(line, 1, match_start)
    IN \/ strip(text_before) = <<>>
       \/ rstrip(text_before)[Len(rstrip(text_before))] \in {".", "!", "?"}

PronounHits(line, word) ==
    {m \in WordMatches(line, word) : ~inside_inline_code(line, m) /\ ~at_sentence_start(line, m)}

RECURSIVE check_russian_polite_pronouns_from(_, _, _, _, _)
check_russian_polite_pronouns_from(filename, root, line, line_num, k) ==
    IF k > Len(RUSSIAN_POLITE_PRONOUNS_CAPITALIZED) THEN <<>>
    ELSE IF PronounHits(line, RUSSIAN_POLITE_PRONOUNS_CAPITALIZED[k]) # {}
    THEN <<format_error("H024", RULES.H024 \o ": use lowercase \"" \o Flat(lower(RUSSIAN_POLITE_PRONOUNS_CAPITALIZED[k]))
                             \o "\" when addressing reader", filename, root,
              line_num, SetMin(PronounHits(line, RUSSIAN_POLITE_PRONOUNS_CAPITALIZED[k])) + 1)>>
    ELSE check_russian_polite_pronouns_from(filename, root, line, line_num, k + 1)

check_russian_polite_pronouns(filename, root, line, line_num) ==
    check_russian_polite_pronouns_from(filename, root, line, line_num, 1)

\* H025
TimesHit(segment, pos) ==
    LET char == segment[pos + 1]
        before == segment[pos]
        after == segment[pos + 2]
    IN /\ (before \in {" ", TAB} \/ IsDigit(before))
       /\ (after \in {" ", TAB} \/ IsDigit(after))
       /\ (char = "x" =>
             /\ ~(before = " " /\ SubSeq(segment, pos + 1, pos + 3) \in {<<"x", "8", "6">>, <<"x", "6", "4">>})
             /\ ~(IsDigit(before) /\ after \in {" ", TAB}))

check_x_instead_of_times(filename, root, line, line_num) ==
    LET pieces == identify_code_blocks_line(line)
    IN ConcatRange([k \in 1..(Len(pieces)) |->
           IF pieces[k][2] THEN <<>>
           ELSE ConcatRange([pos \in 1..(Len(pieces[k][1]) - 2) |->
                    IF pieces[k][1][pos + 1] \in {"x", CYR_HA} /\ TimesHit(pieces[k][1], pos)
                    THEN <<format_error("H025", RULES.H025 \o ": \"" \o pieces[k][1][pos + 1] \o "\" should be \"" \o TIMES \o "\"", filename, root,
                              line_num, OffsetBefore(pieces, k) + pos + 1)>>
                    ELSE <<>>],
                    1, Len(pieces[k][1]) - 2)],
           1, Len(pieces))

\* H026
check_image_not_at_line_start(filename, root, line, line_num) ==
    IF ~contains(strip(line), <<"!", "[">>) \/ find(strip(line), <<"!", "[">>) = 0 THEN <<>>
    ELSE <<format_error("H026", RULES.H026, filename, root, line_num, find(line, <<"!", "[">>) + 1)>>

\* H028
check_horizontal_bar(filename, root, line, clean_line, line_num) ==
    IF ~contains(clean_line, <<HBAR>>) THEN <<>>
    ELSE <<format_error("H028", RULES.H028, filename, root, line_num, find(line, <<HBAR>>) + 1)>>

\* H029
check_numero_space(filename, root, line, line_num) ==
    ConcatRange([pos \in 0..(Len(line) - 1) |->
        IF line[pos + 1] = NUMERO /\ pos + 1 < Len(line) /\ line[pos + 2] # " "
        THEN <<format_error("H029", RULES.H029, filename, root, line_num, pos + 1)>> ELSE <<>>],
        0, Len(line) - 1)

\* H030: the first prose piece holding "?."
QuestionPeriodPieces(pieces) == {k \in 1..Len(pieces) : ~pieces[k][2] /\ contains(pieces[k][1], <<"?", ".">>)}

\* variant: the offset is not advanced over the inline-code pieces
check_question_mark_period_mut_offset(filename, root, line, line_num) ==
    LET pieces == identify_code_blocks_line(line)
        hits == QuestionPeriodPieces(pieces)
    IN IF hits = {} THEN <<>>
       ELSE <<format_error("H030", RULES.H030, filename, root, line_num,
                 OffsetBefore(SelectSeq(pieces, LAMBDA p : ~p[2]), Cardinality({k \in 1..SetMin(hits) : ~pieces[k][2]}))
                 + find(pieces[SetMin(hits)][1], <<"?", ".">>) + 1)>>

check_question_mark_period(filename, root, line, line_num) ==
    LET pieces == identify_code_blocks_line(line)
        hits == QuestionPeriodPieces(pieces)
    IN IF hits = {} THEN <<>>
       ELSE <<format_error("H030", RULES.H030, filename, root, line_num,
                 OffsetBefore(pieces, SetMin(hits)) + find(pieces[SetMin(hits)][1], <<"?", ".">>) + 1)>>


(***************************************************************************)
(* H023: no empty line between paragraphs.                                 *)
(***************************************************************************)
DetailsTags == {<<"<", "d", "e", "t", "a", "i", "l", "s">>, <<"<", "/", "d", "e", "t", "a", "i", "l", "s", ">">>, <<"<", "s", "u", "m", "m", "a", "r", "y">>, <<"<", "/", "s", "u", "m", "m", "a", "r", "y", ">">>}

\* nest after content_lines[0..line_index]
RECURSIVE DetailsNest(_, _)
DetailsNest(content_lines, line_index) ==
    IF line_index < 0 THEN 0
    ELSE DetailsNest(content_lines, line_index - 1)
         + (IF contains(lower(strip(content_lines[line_index + 1])), <<"<", "d", "e", "t", "a", "i", "l", "s">>) THEN 1 ELSE 0)
         - (IF contains(lower(strip(content_lines[line_index + 1])), <<"<", "/", "d", "e", "t", "a", "i", "l", "s", ">">>) THEN 1 ELSE 0)

\* variant: any imbalance counts as being inside a block
inside_details_block_mut_nonzero(content_lines, line_index) == DetailsNest(content_lines, line_index) # 0

inside_details_block(content_lines, line_index) == DetailsNest(content_lines, line_index) > 0

is_paragraph_pair_requiring_empty_line(line_i, line_i_next) ==
    LET stripped_i == strip(line_i)
    IN /\ stripped_i # <<>>
       /\ ~startswithAny(lower(stripped_i), DetailsTags)
       /\ ~startswithAny(lower(strip(line_i_next)), DetailsTags)
       /\ ~startswith(stripped_i, <<"$", "$">>)
       /\ ~startswithAny(stripped_i, {<<"*", " ">>, <<"-", " ">>, <<" ", " ", "*", " ">>, <<" ", " ", "-", " ">>})
       /\ ~startswithAny(strip(line_i_next), {<<"!", "[">>, <<"$", "$">>})
       /\ ~(stripped_i[1] \in {"|", "*", ">"} \/ IsDigit(stripped_i[1]))

check_empty_line_between_paragraphs(filename, root, content_lines, code_block_info, yaml_end_line) ==
    ConcatRange([i \in 0..(Len(content_lines) - 2) |->
        IF /\ strip(content_lines[i + 1]) # <<>> /\ strip(content_lines[i + 2]) # <<>>
           /\ ~code_block_info[i + 1] /\ ~code_block_info[i + 2]
           /\ ~inside_details_block(content_lines, i)
           /\ is_paragraph_pair_requiring_empty_line(content_lines[i + 1], content_lines[i + 2])
        THEN <<format_error("H023", RULES.H023 \o ": add empty line between paragraphs", filename, root,
                  (yaml_end_line - 1) + i + 1, 0)>>
        ELSE <<>>],
        0, Len(content_lines) - 2)

(***************************************************************************)
(* The rules of one prose line, of the content, and of the file.           *)
(***************************************************************************)
check_non_code_line_rules(filename, root, line, line_num, content_lines, line_index, rules, yaml_end_line, lang) ==
    LET clean_line == CleanLine(line)
    IN (IF "H006" \in rules THEN check_incorrect_words(filename, root, line, clean_line, line_num) ELSE <<>>)
       \o (IF "H009" \in rules
           THEN check_double_spaces(filename, root, line, line_num, content_lines, line_index) ELSE <<>>)
       \o (IF "H013" \in rules
           THEN check_colon_before_code(filename, root, line, line_num, content_lines, line_index) ELSE <<>>)
       \o (IF "H014" \in rules
           THEN check_colon_before_image(filename, root, line, line_num, content_lines, line_index) ELSE <<>>)
       \o (IF "H015" \in rules THEN check_space_before_punctuation(filename, root, line, line_num) ELSE <<>>)
       \o (IF "H016" \in rules /\ line_num >= yaml_end_line
           THEN check_dash_usage(filename, root, line, clean_line, line_num) ELSE <<>>)
       \o (IF "H017" \in rules THEN check_ellipsis(filename, root, line, clean_line, line_num) ELSE <<>>)
       \o (IF "H018" \in rules THEN check_quotes(filename, root, line, clean_line, line_num) ELSE <<>>)
       \o (IF "H019" \in rules THEN check_html_tags(filename, root, line, line_num) ELSE <<>>)
       \o (IF "H020" \in rules THEN check_image_caption(filename, root, line, line_num) ELSE <<>>)
       \o (IF "H021" \in rules
           THEN check_lowercase_after_punctuation(filename, root, line, clean_line, line_num) ELSE <<>>)
       \o (IF "H024" \in rules /\ lang = <<"r", "u">>
           THEN check_russian_polite_pronouns(filename, root, line, line_num) ELSE <<>>)
       \o (IF "H025" \in rules THEN check_x_instead_of_times(filename, root, line, line_num) ELSE <<>>)
       \o (IF "H026" \in rules THEN check_image_not_at_line_start(filename, root, line, line_num) ELSE <<>>)
       \o (IF "H028" \in rules THEN check_horizontal_bar(filename, root, line, clean_line, line_num) ELSE <<>>)
       \o (IF "H029" \in rules THEN check_numero_space(filename, root, line, line_num) ELSE <<>>)
       \o (IF "H030" \in rules THEN check_question_mark_period(filename, root, line, line_num) ELSE <<>>)

\* variant: the file-level rules and H023 run after the walk over the lines
check_content_rules_mut_tail(filename, root, all_lines, yaml_end_line, rules, text, lang) ==
    LET content_lines == ContentLines(all_lines, yaml_end_line)
        code_block_info == identify_code_blocks(content_lines)
    IN ConcatRange([i \in 0..(Len(content_lines) - 1) |->
              LET line == content_lines[i + 1]
                  actual_line_num == (yaml_end_line - 1) + i + 1
              IN check_all_lines_rules(filename, root, line, actual_line_num, rules)
                 \o (IF ~code_block_info[i + 1]
                     THEN check_non_code_line_rules(filename, root, line, actual_line_num, content_lines,
                                                    i, rules, yaml_end_line, lang)
                     ELSE <<>>)],
              0, Len(content_lines) - 1)
       \o check_file_level_rules(filename, root, all_lines, rules, text)
       \o (IF "H023" \in rules
           THEN check_empty_line_between_paragraphs(filename, root, content_lines, code_block_info,
                                                    yaml_end_line)
           ELSE <<>>)

check_content_rules(filename, root, all_lines, yaml_end_line, rules, text, lang) ==
    LET content_lines == ContentLines(all_lines, yaml_end_line)
        code_block_info == identify_code_blocks(content_lines)
    IN check_file_level_rules(filename, root, all_lines, rules, text)
       \o (IF "H023" \in rules
           THEN check_empty_line_between_paragraphs(filename, root, content_lines, code_block_info,
                                                    yaml_end_line)
           ELSE <<>>)
       \o ConcatRange([i \in 0..(Len(content_lines) - 1) |->
              LET line == content_lines[i + 1]
                  actual_line_num == (yaml_end_line - 1) + i + 1
              IN check_all_lines_rules(filename, root, line, actual_line_num, rules)
                 \o (IF ~code_block_info[i + 1]
                     THEN check_non_code_line_rules(filename, root, line, actual_line_num, content_lines,
                                                    i, rules, yaml_end_line, lang)
                     ELSE <<>>)],
              0, Len(content_lines) - 1)

\* variant: a file that cannot be read is checked as an empty file
check_all_rules_mut_empty(filename, root, rules, can_read, text) ==
    check_filename_rules(filename, root, rules)
    \o LET all_lines == splitlines(IF can_read THEN text ELSE <<>>)
           yaml_end_line == find_yaml_end_line(all_lines)
           yaml_part == split_yaml_content(IF can_read THEN text ELSE <<>>)[1]
           y == check_yaml_rules(filename, root, yaml_part, all_lines, rules)
       IN y.diags
          \o (IF y.raised
              THEN <<format_error("H000", "Exception error: <reason>", filename, root, 0, 0)>>
              ELSE check_content_rules(filename, root, all_lines, yaml_end_line, rules,
                                       IF can_read THEN text ELSE <<>>, LangOf(yaml_part))
                   \o check_code_rules(filename, root, all_lines, yaml_end_line, rules))

\* _check_all_rules: the diagnostics of one file under an active rule set
check_all_rules(filename, root, rules, can_read, text) ==
    check_filename_rules(filename, root, rules)
    \o (IF ~can_read
        THEN <<format_error("H000", "Exception error: <reason>", filename, root, 0, 0)>>
        ELSE LET all_lines == splitlines(text)
                 yaml_end_line == find_yaml_end_line(all_lines)
                 yaml_part == split_yaml_content(text)[1]
                 lang == LangOf(yaml_part)
                 y == check_yaml_rules(filename, root, yaml_part, all_lines, rules)
             IN y.diags
                \o (IF y.raised
                    THEN <<format_error("H000", "Exception error: <reason>", filename, root, 0, 0)>>
                    ELSE check_content_rules(filename, root, all_lines, yaml_end_line, rules, text, lang)
                         \o check_code_rules(filename, root, all_lines, yaml_end_line, rules)))

\* MarkdownChecker.check
check(filename, root, known, select, exclude_rules, can_read, text) ==
    check_all_rules(filename, root, determine_active_rules(select, exclude_rules, known), can_read, text)


(***************************************************************************)
(* The source linter: PythonChecker of python_checker.py.                  *)
(***************************************************************************)
PY_RULES ==
    [HP001 |-> "Presence of Russian letters in the code",
     HP002 |-> "Old-style docstring formatting (non-Markdown style)"]

CYR_I == "CYR_i"  \* U+0456, Cyrillic small Byelorussian-Ukrainian I

\* [а-яёА-ЯЁ] among the modelled code points
RussianLetters == {CYR_VE, CYR_VE_SMALL, CYR_YERU, CYR_HA}

\* str.upper() over the modelled code points
upper(s) == [i \in 1..Len(s) |-> IF s[i] \in LowerLatin THEN CHOOSE u \in UpperLatin : LowerOf[u] = s[i] ELSE s[i]]

\* str.count(p), p not empty: occurrences without overlap
RECURSIVE count(_, _)
count(s, p) ==
    IF Len(s) < Len(p) THEN 0
    ELSE IF startswith(s, p) THEN 1 + count(From(s, Len(p)), p)
    ELSE count(Tail(s), p)

\* the words of the two directive patterns, in lower case (re.IGNORECASE)
IGNORE_PATTERN == <<"i", "g", "n", "o", "r", "e", ":">>
FILE_IGNORE_PATTERN == <<"f", "i", "l", "e", "-", "i", "g", "n", "o", "r", "e", ":">>

\* [A-Z0-9,\s] under re.IGNORECASE
IsRuleListChar(c) == c \in UpperLatin \cup LowerLatin \cup Digits \cup {","} \/ IsSpace(c)

\* the 1-based position of the first code point from i on that is not white space
RECURSIVE SkipSpaces(_, _)
SkipSpaces(line, i) == IF i <= Len(line) /\ IsSpace(line[i]) THEN SkipSpaces(line, i + 1) ELSE i

\* the longest prefix of s made of rule list characters
RECURSIVE RuleListRun(_)
RuleListRun(s) == IF s # <<>> /\ IsRuleListChar(Head(s)) THEN <<Head(s)>> \o RuleListRun(Tail(s)) ELSE <<>>

\* whether  #\s*word\s*([A-Z0-9,\s]+)  matches at the 1-based position i
MatchesAt(line, word, i) ==
    /\ line[i] = "#"
    /\ LET j == SkipSpaces(line, i + 1)
       IN /\ j + Len(word) <= Len(line)
          /\ lower(SubSeq(line, j, j + Len(word) - 1)) = word
          /\ IsRuleListChar(line[j + Len(word)])

\* group(1) of the match at position i: \s* is greedy and gives back one
\* code point when nothing else is left for the group
GroupAt(line, word, i) ==
    LET run == RuleListRun(From(line, SkipSpaces(line, i + 1) + Len(word) - 1))
    IN IF lstrip(run) # <<>> THEN lstrip(run) ELSE <<run[Len(run)]>>

\* pattern.search(line): the start of the leftmost match, 0 when there is none
search(line, word) ==
    IF \E i \in 1..Len(line) : MatchesAt(line, word, i)
    THEN SetMin({i \in 1..Len(line) : MatchesAt(line, word, i)})
    ELSE 0

\* _parse_rules_string
parse_rules_string(rules_str) ==
    {Flat(upper(strip(split(rules_str, ",")[k]))) :
        k \in {m \in 1..Len(split(rules_str, ",")) : strip(split(rules_str, ",")[m]) # <<>>}}

\* variant: every directive of the line counts, not only the leftmost
should_ignore_line_mut_any(line, rule_code) ==
    \E i \in 1..Len(line) :
        MatchesAt(line, IGNORE_PATTERN, i) /\ rule_code \in parse_rules_string(GroupAt(line, IGNORE_PATTERN, i))

\* _should_ignore_line
should_ignore_line(line, rule_code) ==
    /\ search(line, IGNORE_PATTERN) # 0
    /\ rule_code \in parse_rules_string(GroupAt(line, IGNORE_PATTERN, search(line, IGNORE_PATTERN)))

\* variant: only a directive on the first line of the file counts
get_file_ignored_rules_mut_first(lines) ==
    IF lines # <<>> /\ search(lines[1], FILE_IGNORE_PATTERN) # 0
    THEN parse_rules_string(GroupAt(lines[1], FILE_IGNORE_PATTERN, search(lines[1], FILE_IGNORE_PATTERN)))
    ELSE {}

\* _get_file_ignored_rules
get_file_ignored_rules(lines) ==
    UNION {parse_rules_string(GroupAt(lines[n], FILE_IGNORE_PATTERN, search(lines[n], FILE_IGNORE_PATTERN))) :
              n \in {m \in 1..Len(lines) : search(lines[m], FILE_IGNORE_PATTERN) # 0}}

\* _has_russian_letters
has_russian_letters(text) == \E k \in 1..Len(text) : text[k] \in RussianLetters

\* _find_russian_letters_position
find_russian_letters_position(text) ==
    IF has_russian_letters(text) THEN SetMin({k \in 1..Len(text) : text[k] \in RussianLetters}) ELSE 1

\* PythonChecker._format_error, as the sequence of its pieces (the hint is
\* the tail of the last piece)
py_format_error(error_code, message, filename, root, line_num, col) ==
    <<get_relative_path(filename, root)>>
    \o (IF line_num > 0
        THEN <<":", ToString(line_num)>> \o (IF col > 0 THEN <<":", ToString(col)>> ELSE <<>>)
        ELSE <<>>)
    \o <<": ", error_code, " ",
         message \o (IF error_code \in DOMAIN PY_RULES THEN " [to ignore: # ignore: " \o error_code \o "]" ELSE "")>>

docstring_keywords ==
    <<<<"A", "r", "g", "s", ":">>, <<"R", "e", "t", "u", "r", "n", "s", ":">>, <<"Y", "i", "e", "l", "d", "s", ":">>,
      <<"R", "a", "i", "s", "e", "s", ":">>, <<"A", "t", "t", "r", "i", "b", "u", "t", "e", "s", ":">>,
      <<"N", "o", "t", "e", ":">>, <<"N", "o", "t", "e", "s", ":">>, <<"E", "x", "a", "m", "p", "l", "e", ":">>,
      <<"E", "x", "a", "m", "p", "l", "e", "s", ":">>>>

TRIPLE_DOUBLE == <<DQUOTE, DQUOTE, DQUOTE>>
TRIPLE_SINGLE == <<"'", "'", "'">>

\* in_docstring after the quote test of one line of _check_old_style_docstrings
DocstringStep(in_docstring, line) ==
    LET stripped_line == strip(line)
        triple_double == count(stripped_line, TRIPLE_DOUBLE)
        triple_single == count(stripped_line, TRIPLE_SINGLE)
    IN IF should_ignore_line(line, "HP002") THEN in_docstring
       ELSE IF ~(contains(stripped_line, TRIPLE_DOUBLE) \/ contains(stripped_line, TRIPLE_SINGLE)) THEN in_docstring
       ELSE IF triple_double = 1 \/ triple_single = 1 THEN ~in_docstring
       ELSE IF 2 \in {triple_double, triple_single} THEN FALSE
       ELSE in_docstring

\* in_docstring when the keyword test of line n (1-based) runs
RECURSIVE InDocstring(_, _)
InDocstring(lines, n) == IF n = 0 THEN FALSE ELSE DocstringStep(InDocstring(lines, n - 1), lines[n])

\* whether the line after the keyword line is indented text that is no list item
OldStyleNext(next_line) ==
    /\ strip(next_line) # <<>>
    /\ ~startswith(strip(next_line), <<"-">>)
    /\ next_line # <<>>
    /\ next_line[1] \in {" ", TAB}

\* _check_old_style_docstrings
check_old_style_docstrings(filename, root, lines) ==
    ConcatRange([line_num \in 1..Len(lines) |->
        IF should_ignore_line(lines[line_num], "HP002") \/ ~InDocstring(lines, line_num) THEN <<>>
        ELSE ConcatRange([k \in 1..Len(docstring_keywords) |->
                 IF /\ (strip(lines[line_num]) = docstring_keywords[k]
                           \/ endswith(strip(lines[line_num]), docstring_keywords[k]))
                    /\ line_num < Len(lines)
                    /\ OldStyleNext(lines[line_num + 1])
                 THEN <<py_format_error("HP002", PY_RULES.HP002, filename, root, line_num, 0)>>
                 ELSE <<>>],
                 1, Len(docstring_keywords))],
        1, Len(lines))

\* PythonChecker._check_content_rules
py_check_content_rules(filename, root, lines, rules) ==
    ConcatRange([line_num \in 1..Len(lines) |->
        IF /\ "HP001" \in rules
           /\ ~should_ignore_line(lines[line_num], "HP001")
           /\ has_russian_letters(lines[line_num])
        THEN <<py_format_error("HP001", PY_RULES.HP001, filename, root, line_num,
                               find_russian_letters_position(lines[line_num]))>>
        ELSE <<>>],
        1, Len(lines))
    \o (IF "HP002" \in rules THEN check_old_style_docstrings(filename, root, lines) ELSE <<>>)

\* PythonChecker._check_all_rules
py_check_all_rules(filename, root, rules, can_read, text) ==
    IF ~can_read
    THEN <<py_format_error("P000", "Exception error: <reason>", filename, root, 0, 0)>>
    ELSE py_check_content_rules(filename, root, splitlines(text), rules \ get_file_ignored_rules(splitlines(text)))

\* PythonChecker.check
py_check(filename, root, known, exclude_rules, can_read, text) ==
    py_check_all_rules(filename, root, known \ exclude_rules.codes, can_read, text)


(***************************************************************************)
(* The state machine: the environment writes the file, a caller checks it. *)
(***************************************************************************)
NoCall == [made |-> FALSE, select |-> None, exclude_rules |-> None, held |-> [select |-> {}, exclude_rules |-> {}]]
NoDoc == [read |-> FALSE, all_lines |-> <<>>, yaml_end_line |-> 0, yaml_text |-> <<>>, lang |-> <<>>,
          content_lines |-> <<>>, code_mask |-> <<>>]
NoFmt == [made |-> FALSE]
NoTree == <<>>   \* no entry below "/"
NoWalk == [made |-> FALSE, directory |-> <<>>, extra |-> <<>>, listing |-> <<>>, found |-> <<>>]
NoResults == [made |-> FALSE, directory |-> <<>>, select |-> None, exclude_rules |-> None,
              extra |-> <<>>, listing |-> <<>>, map |-> <<>>, held |-> [select |-> {}, exclude_rules |-> {}]]
NoPyCall == [made |-> FALSE, exclude_rules |-> None, read |-> FALSE, lines |-> <<>>,
             file_ignored_rules |-> {}, rules_to_check |-> {}, out |-> <<>>]

Root == <<<<"r">>>>
PathPlain == <<<<"r">>, <<"a", ".", "m", "d">>>>
PathSpace == <<<<"r">>, <<"a", " ", "b", ".", "m", "d">>>>
PathOutside == <<<<"o", " ", "p">>, <<"a", ".", "m", "d">>>>

\* the locals of _check_all_rules after a successful read
Document(text) ==
    LET all_lines == splitlines(text)
        yaml_end_line == find_yaml_end_line(all_lines)
        content_lines == ContentLines(all_lines, yaml_end_line)
    IN [read |-> TRUE, all_lines |-> all_lines, yaml_end_line |-> yaml_end_line,
        yaml_text |-> split_yaml_content(text)[1], lang |-> LangOf(split_yaml_content(text)[1]),
        content_lines |-> content_lines, code_mask |-> identify_code_blocks(content_lines)]

InitWith(paths) ==
    /\ all_rules = DOMAIN RULES
    /\ project_root = Root
    /\ path \in paths
    /\ readable = TRUE
    /\ content = <<>>
    /\ writes = 0
    /\ call = NoCall
    /\ active = {}
    /\ doc = NoDoc
    /\ out = <<>>
    /\ fmt = NoFmt
    /\ tree = NoTree
    /\ walk = NoWalk
    /\ results = NoResults
    /\ py_all_rules = DOMAIN PY_RULES
    /\ pycall = NoPyCall

\* the environment appends a chunk of text to the file (creating it if needed)
Write(chunk, max_writes) ==
    /\ ~call.made /\ ~pycall.made
    /\ writes < max_writes
    /\ content' = (IF readable THEN content ELSE <<>>) \o chunk
    /\ readable' = TRUE
    /\ writes' = writes + 1
    /\ UNCHANGED <<py_all_rules, pycall, all_rules, project_root, path, call, active, doc, out, fmt, tree, walk, results>>

\* the environment removes the file: reading it raises from now on
Unlink ==
    /\ ~call.made /\ ~pycall.made
    /\ readable
    /\ readable' = FALSE
    /\ content' = <<>>
    /\ UNCHANGED <<py_all_rules, pycall, all_rules, project_root, path, writes, call, active, doc, out, fmt, tree, walk, results>>

\* checker.check(path, select=select, exclude_rules=exclude_rules)
Check(select, exclude_rules) ==
    /\ ~call.made
    /\ call' = [made |-> TRUE, select |-> select, exclude_rules |-> exclude_rules,
                held |-> [select |-> determine_active_rules_objects(select, exclude_rules, all_rules).select,
                          exclude_rules |-> determine_active_rules_objects(select, exclude_rules, all_rules).exclude_rules]]
    /\ all_rules' = determine_active_rules_objects(select, exclude_rules, all_rules).all_rules
    /\ active' = determine_active_rules(select, exclude_rules, all_rules)
    /\ doc' = IF readable THEN Document(content) ELSE NoDoc
    /\ out' = check(path, project_root, all_rules, select, exclude_rules, readable, content)
    /\ UNCHANGED <<py_all_rules, pycall, project_root, path, readable, content, writes, fmt, tree, walk, results>>

\* the caller drops the list it was returned; nothing of the call remains
Return ==
    /\ call.made
    /\ call' = NoCall /\ active' = {} /\ doc' = NoDoc /\ out' = <<>>
    /\ UNCHANGED <<py_all_rules, pycall, all_rules, project_root, path, readable, content, writes, fmt, tree, walk, results>>

\* checker._format_error(error_code, message, path, line_num=line_num, col=col)
Format(error_code, message, line_num, col) ==
    /\ fmt' = [made |-> TRUE, error_code |-> error_code, message |-> message, line_num |-> line_num,
               col |-> col, text |-> format_error(error_code, message, path, project_root, line_num, col)]
    /\ UNCHANGED <<py_all_rules, pycall, all_rules, project_root, path, readable, content, writes, call, active, doc, out, tree, walk, results>>

(***************************************************************************)
(* Spec: files with front matter and a few rule violations, checked under  *)
(* every select and exclude drawn from small sets of codes.                *)
(***************************************************************************)
MaxWrites == 3
Chunks == {<<"-", "-", "-", NL>>, <<"l", "a", "n", "g", ":", " ", "f", "r", NL>>, <<"a", ":", " ", "b", ":", " ", "c", NL>>, <<"o", "k", " ", ".", NL>>}
SelectCodes == {"H001", "H006", "H999"}
ExcludeCodes == {"H005", "H000"}
Selects == {None} \cup {Given(S) : S \in SUBSET SelectCodes}
Excludes == {None} \cup {Given(S) : S \in SUBSET ExcludeCodes}

Init == InitWith({PathPlain, PathSpace})

Next ==
    \/ \E chunk \in Chunks : Write(chunk, MaxWrites)
    \/ Unlink
    \/ \E select \in Selects, exclude_rules \in Excludes : Check(select, exclude_rules)
    \/ Return

Spec == Init /\ [][Next]_vars


\* the codes of the diagnostics in a returned list
Codes(ds) == {DiagCode(ds[i]) : i \in 1..Len(ds)}

\* the activation policy as stated: (select /\ known) or known, minus exclude
Policy(select, exclude_rules, known) ==
    (IF select.given THEN {c \in select.codes : c \in known} ELSE known)
    \ (IF exclude_rules.given THEN exclude_rules.codes ELSE {})

\* the codes a call names that are not in the registry
UnknownCodes == (call.select.codes \cup call.exclude_rules.codes) \ all_rules

\* the list check returns for the same file with neither select nor exclude
Baseline == check(path, project_root, all_rules, None, None, readable, content)

\* C1 (as stated): the rules that run are (select /\ known), or all known rules
\* when select is not given, minus exclude; codes outside the registry are
\* dropped and no diagnostic ever carries a code the call named that is
\* outside the registry.
C1_NoUnknownCodeInOutput ==
    call.made =>
        /\ active = Policy(call.select, call.exclude_rules, all_rules)
        /\ Codes(out) \cap UnknownCodes = {}

\* C1 (amended): the rules that run follow the policy, and every diagnostic
\* carries the code of a rule that ran or H000, which is no rule of the
\* registry and is reported whatever select and exclude are.
C1_ActivationPolicy ==
    call.made =>
        /\ active = Policy(call.select, call.exclude_rules, all_rules)
        /\ Codes(out) \subseteq active \cup {"H000"}
        /\ Codes(out) \cap (UnknownCodes \ {"H000"}) = {}

\* a call naming the unknown H999 in select and H000 in exclude on a file
\* that has a filename diagnostic and a failure diagnostic
C1_Witness ==
    /\ call.made
    /\ call.select.given /\ "H999" \in call.select.codes
    /\ call.exclude_rules.given /\ "H000" \in call.exclude_rules.codes
    /\ "H000" \in Codes(out)
    /\ "H001" \in Codes(out)

\* C2 (as stated): check(file, select=S, exclude=E) is the list check(file)
\* returns, restricted to the codes in (S /\ known) - E, in the same order.
C2_FilterOfBaseline ==
    call.made =>
        out = SelectSeq(Baseline,
                        LAMBDA d : DiagCode(d) \in Policy(call.select, call.exclude_rules, all_rules))

\* C2 (amended): check(file, select=S, exclude=E) is the list check(file)
\* returns, restricted to the codes in (S /\ known) - E and to H000, in the
\* same order.
C2_FilterKeepsH000 ==
    call.made =>
        out = SelectSeq(Baseline,
                        LAMBDA d : DiagCode(d) \in Policy(call.select, call.exclude_rules, all_rules)
                                                   \cup {"H000"})

\* a call whose select drops some diagnostic of the unrestricted call, keeps
\* another and still reports H000
C2_Witness ==
    /\ call.made
    /\ call.select.given
    /\ Len(out) < Len(Baseline)
    /\ "H000" \in Codes(out)
    /\ Codes(out) # {"H000"}


(***************************************************************************)
(* SpecFence: files of fence lines, blank lines and prose lines.           *)
(***************************************************************************)
MaxWritesFence == 4
ChunksFence == {<<BT, BT, BT, NL>>, <<BT, BT, BT, "p", "y", NL>>, <<BT, BT, BT, BT, NL>>, <<NL>>, <<"o", "k", NL>>}
SelectsFence == {None, Given({"H012"})}

InitFence == InitWith({PathPlain})

NextFence ==
    \/ \E chunk \in ChunksFence : Write(chunk, MaxWritesFence)
    \/ \E select \in SelectsFence : Check(select, None)
    \/ Return

SpecFence == InitFence /\ [][NextFence]_vars

\* the content line a diagnostic points at (0: none, or a front matter line)
ContentIndex(d) ==
    IF doc.read /\ DiagLine(d) > 0 /\ DiagLine(d) - (doc.yaml_end_line - 1) \in 1..Len(doc.content_lines)
    THEN DiagLine(d) - (doc.yaml_end_line - 1) ELSE 0

\* C5: for every rule other than H007, H008, H010 and H022, no diagnostic has
\* the line number of a line classified as fenced code; in particular two
\* consecutive empty lines inside a fenced code block give no H012.
C5_NoDiagnosticOnFencedCode ==
    call.made =>
        \A i \in 1..Len(out) :
            DiagCode(out[i]) \notin {"H007", "H008", "H010", "H022"} /\ ContentIndex(out[i]) > 0
                => ~doc.code_mask[ContentIndex(out[i])]

\* the part of C5 about H012: no H012 on a line classified as fenced code
C5_NoH012OnFencedCode ==
    call.made =>
        \A i \in 1..Len(out) :
            DiagCode(out[i]) = "H012" /\ ContentIndex(out[i]) > 0 => ~doc.code_mask[ContentIndex(out[i])]

\* C9, the state machine as stated: the marker after the first k lines
RECURSIVE C9_Marker(_, _)
C9_Marker(lines, k) ==
    IF k = 0 THEN 0
    ELSE LET before == C9_Marker(lines, k - 1)
             run == RunLength(lines[k], BT)
         IN IF run >= 3 /\ before = 0 THEN run
            ELSE IF run >= 3 /\ before = run THEN 0
            ELSE before

\* C9: classification is the state machine of the fence marker: a line that
\* opens with three or more backticks sets the marker when none is set and
\* clears it only when its run has the marker's length; fence lines and the
\* lines seen while the marker is set are code, the others prose; after a
\* fence that is never closed every line to the end of the file is code.
C9_FenceStateMachine ==
    call.made /\ doc.read =>
        LET lines == doc.content_lines
            n == Len(lines)
        IN /\ Len(doc.code_mask) = n
           /\ \A k \in 1..n :
                  doc.code_mask[k] = (RunLength(lines[k], BT) >= 3 \/ C9_Marker(lines, k - 1) # 0)
           /\ \A k \in 1..n :
                  (\A m \in k..n : C9_Marker(lines, m) # 0) => \A m \in k..n : doc.code_mask[m]

\* a file where a fence of another length inside an open fence is code and
\* does not close it, and the tail after it is still code
C9_Witness ==
    /\ call.made /\ doc.read
    /\ \E k \in 2..Len(doc.content_lines) :
           /\ RunLength(doc.content_lines[k], BT) >= 3
           /\ C9_Marker(doc.content_lines, k - 1) # 0
           /\ C9_Marker(doc.content_lines, k) = C9_Marker(doc.content_lines, k - 1)
           /\ k < Len(doc.content_lines)
           /\ RunLength(doc.content_lines[k + 1], BT) = 0
           /\ doc.code_mask[k + 1]


(***************************************************************************)
(* SpecInline: one prose line built of backticks, a word, spaces and "?.". *)
(***************************************************************************)
MaxWritesInline == 5
ChunksInline == {<<BT>>, <<"o", "k">>, <<" ">>, <<"?", ".">>}

InitInline == InitWith({PathPlain})

NextInline ==
    \/ \E chunk \in ChunksInline : Write(chunk, MaxWritesInline)
    \/ Check(None, None)
    \/ Return

SpecInline == InitInline /\ [][NextInline]_vars

\* the line a diagnostic points at, <<>> when it names none
DiagText(d) == IF ContentIndex(d) > 0 THEN doc.content_lines[ContentIndex(d)] ELSE <<>>

\* C6: no diagnostic of H006, H009, H015, H016, H017, H018, H021, H024, H025
\* or H030 has a column inside an inline-code span of its line.
C6_NoColumnInsideInlineCode ==
    call.made =>
        \A i \in 1..Len(out) :
            /\ DiagCode(out[i]) \in {"H006", "H009", "H015", "H016", "H017", "H018", "H021", "H024",
                                     "H025", "H030"}
            /\ ContentIndex(out[i]) > 0
            /\ DiagCol(out[i]) > 0
            => ~inside_inline_code(DiagText(out[i]), DiagCol(out[i]) - 1)

\* the H006 diagnostics of content line k about the spelling w
H006About(k, w) ==
    {i \in 1..Len(out) :
        /\ DiagCode(out[i]) = "H006"
        /\ ContentIndex(out[i]) = k
        /\ contains(DiagMessage(out[i]), "\"" \o Flat(w) \o "\" should be")}

\* C7: when a line holds a disallowed spelling once inside an inline-code
\* span and once outside, there is exactly one H006 for it on that line and
\* its column is the 1-based position of the occurrence outside the code.
C7_H006AtOccurrenceOutsideCode ==
    call.made /\ doc.read =>
        \A k \in 1..Len(doc.content_lines) :
            \A e \in {INCORRECT_WORDS[n] : n \in 1..Len(INCORRECT_WORDS)} :
                LET line == doc.content_lines[k]
                    inner == {p \in WordMatches(line, e.wrong) : inside_inline_code(line, p)}
                    outer == {p \in WordMatches(line, e.wrong) : ~inside_inline_code(line, p)}
                IN ~doc.code_mask[k] /\ Cardinality(inner) = 1 /\ Cardinality(outer) = 1
                   => /\ Cardinality(H006About(k, e.wrong)) = 1
                      /\ \A i \in H006About(k, e.wrong) : DiagCol(out[i]) = SetMin(outer) + 1

\* the concatenation of the segments of a partition
RECURSIVE C8_Concat(_)
C8_Concat(pieces) == IF pieces = <<>> THEN <<>> ELSE pieces[1][1] \o C8_Concat(Tail(pieces))

\* C8: the pieces identify_code_blocks_line yields for a line concatenate to
\* the line, so the running offset a rule accumulates over the pieces is the
\* start of each piece in the line, and the column H030 computes from it
\* points at the "?." of the line that lies outside inline code.
C8_LosslessPartition ==
    call.made /\ doc.read =>
        /\ \A k \in 1..Len(doc.content_lines) :
               LET line == doc.content_lines[k]
                   pieces == identify_code_blocks_line(line)
               IN /\ C8_Concat(pieces) = line
                  /\ \A n \in 1..Len(pieces) :
                         /\ pieces[n][1] # <<>>
                         /\ SubSeq(line, OffsetBefore(pieces, n) + 1,
                                   OffsetBefore(pieces, n) + Len(pieces[n][1])) = pieces[n][1]
        /\ \A i \in 1..Len(out) :
               DiagCode(out[i]) = "H030" =>
                   /\ ContentIndex(out[i]) > 0
                   /\ DiagCol(out[i]) \in 1..(Len(DiagText(out[i])) - 1)
                   /\ SubSeq(DiagText(out[i]), DiagCol(out[i]), DiagCol(out[i]) + 1) = <<"?", ".">>
                   /\ ~inside_inline_code(DiagText(out[i]), DiagCol(out[i]) - 1)

\* a line whose "?." in prose follows an inline-code span, with its H030
C8_Witness ==
    /\ call.made /\ doc.read
    /\ \E i \in 1..Len(out) :
           /\ DiagCode(out[i]) = "H030"
           /\ \E r \in code_ranges(DiagText(out[i])) : r[2] <= DiagCol(out[i]) - 1


(***************************************************************************)
(* SpecYaml: files of "---" lines, a key line, a line holding "---" inside *)
(* and a prose line.                                                       *)
(***************************************************************************)
MaxWritesYaml == 4
ChunksYaml == {<<"-", "-", "-", NL>>, <<"l", "a", "n", "g", ":", " ", "e", "n", NL>>, <<"a", "-", "-", "-", "b", NL>>, <<"x", NL>>}

InitYaml == InitWith({PathPlain})

NextYaml ==
    \/ \E chunk \in ChunksYaml : Write(chunk, MaxWritesYaml)
    \/ Check(None, None)
    \/ Return

SpecYaml == InitYaml /\ [][NextYaml]_vars

\* lines[1..n] joined by line feeds
RECURSIVE C10_Join(_, _)
C10_Join(lines, n) == IF n = 0 THEN <<>> ELSE IF n = 1 THEN lines[1] ELSE C10_Join(lines, n - 1) \o <<NL>> \o lines[n]

\* the lines after the first that are exactly "---"
C10_Closers(lines) == {k \in 2..Len(lines) : lines[k] = DASH3}

\* C10: yaml_text is non-empty exactly when the first line is "---" and a
\* later line is "---"; it is then the text from the first line through the
\* first such later line; a "---" that is not a whole line neither starts
\* nor ends the block.
C10_YamlBlockIsWholeLines ==
    call.made /\ doc.read =>
        LET lines == doc.all_lines
            present == Len(lines) >= 1 /\ lines[1] = DASH3 /\ C10_Closers(lines) # {}
        IN /\ (doc.yaml_text # <<>>) <=> present
           /\ present => doc.yaml_text = C10_Join(lines, SetMin(C10_Closers(lines)))


(***************************************************************************)
(* SpecFormat: _format_error on every code, message, path, line and column *)
(* of small sets.                                                          *)
(***************************************************************************)
MaxLineNum == 3
MaxCol == 3
FormatCodes == {"H000", "H006", "H030"}
FormatMessages == {"YAML is missing", "m: n"}

InitFormat == InitWith({PathPlain, PathSpace, PathOutside})

NextFormat ==
    \E error_code \in FormatCodes, message \in FormatMessages, line_num \in 0..MaxLineNum, col \in 0..MaxCol :
        Format(error_code, message, line_num, col)

SpecFormat == InitFormat /\ [][NextFormat]_vars

\* the string a formatted diagnostic stands for
RECURSIVE Text(_)
Text(d) == IF d = <<>> THEN "" ELSE Head(d) \o Text(Tail(d))

\* <rel-path>: the path below the project root, or the whole path when the
\* file is not below it
RelPath ==
    IF path = PathPlain THEN "a.md" ELSE IF path = PathSpace THEN "a b.md" ELSE "/o p/a.md"

\* C4: the formatted string is <rel-path>:<line>:<col>: <CODE> <message>
\* when line > 0 and col > 0, <rel-path>:<line>: <CODE> <message> when
\* line > 0 and col = 0, and <rel-path>: <CODE> <message> when both are 0.
C4_DiagnosticFormat ==
    fmt.made =>
        LET tail == ": " \o fmt.error_code \o " " \o fmt.message
        IN /\ fmt.line_num > 0 /\ fmt.col > 0
              => Text(fmt.text) = RelPath \o ":" \o ToString(fmt.line_num) \o ":" \o ToString(fmt.col) \o tail
           /\ fmt.line_num > 0 /\ fmt.col = 0
              => Text(fmt.text) = RelPath \o ":" \o ToString(fmt.line_num) \o tail
           /\ fmt.line_num = 0 /\ fmt.col = 0
              => Text(fmt.text) = RelPath \o tail

\* a diagnostic with a line and no column, of a file outside the project root
C4_Witness ==
    /\ fmt.made
    /\ fmt.line_num > 0 /\ fmt.col = 0
    /\ path = PathOutside
    /\ fmt.message = "m: n"


(***************************************************************************)
(* SpecOrder: a file with a space in its name, with or without front       *)
(* matter, with prose, blank lines and fences, readable or not.            *)
(***************************************************************************)
MaxWritesOrder == 4
ChunksOrder == {<<"-", "-", "-", NL>>, <<"a", ":", " ", "b", ":", " ", "c", NL>>, <<"l", "a", "n", "g", ":", " ", "f", "r", NL>>, <<"o", "k", NL>>, <<NL>>, <<BT, BT, BT, "p", "y", NL>>}

InitOrder == InitWith({PathSpace})

NextOrder ==
    \/ \E chunk \in ChunksOrder : Write(chunk, MaxWritesOrder)
    \/ Unlink
    \/ Check(None, None)
    \/ Return

SpecOrder == InitOrder /\ [][NextOrder]_vars

\* the order in which _check_all_rules reaches the rules
RuleOrder ==
    <<"H001", "H002", "H000", "H003", "H004", "H005", "H011", "H012", "H023",
      "H008", "H010", "H022", "H006", "H009", "H013", "H014", "H015", "H016", "H017", "H018",
      "H019", "H020", "H021", "H024", "H025", "H026", "H028", "H029", "H030", "H007">>
RuleIndex(code) == CHOOSE k \in 1..Len(RuleOrder) : RuleOrder[k] = code

\* the pass of _check_all_rules that yields a diagnostic: the filename rules,
\* the YAML rules (with H000 for a YAML parsing error, at line 1), H011, H012,
\* H023, the walk over the lines, H007, and last the handler of an exception
\* (H000 without a line)
Phase(d) ==
    CASE DiagCode(d) \in {"H001", "H002"} -> 1
      [] DiagCode(d) = "H000" /\ DiagLine(d) = 0 -> 8
      [] DiagCode(d) \in {"H000", "H003", "H004", "H005"} -> 2
      [] DiagCode(d) = "H011" -> 3
      [] DiagCode(d) = "H012" -> 4
      [] DiagCode(d) = "H023" -> 5
      [] DiagCode(d) = "H007" -> 7
      [] OTHER -> 6

LexLeq(a, b) ==
    \/ a[1] < b[1]
    \/ a[1] = b[1] /\ a[2] < b[2]
    \/ a[1] = b[1] /\ a[2] = b[2] /\ a[3] <= b[3]

\* the number in a code: codes compare as strings the way these numbers do
CodeNumber(code) == CHOOSE n \in 0..99 : code = (IF n < 10 THEN "H00" ELSE "H0") \o ToString(n)

SortKey(d) == <<DiagLine(d), DiagCol(d), CodeNumber(DiagCode(d))>>
EmissionKey(d) == <<Phase(d), DiagLine(d), RuleIndex(DiagCode(d))>>

\* C3 (as stated): the returned list is sorted by (line, column, code), an
\* omitted line or column counting as 0.
C3_SortedByLineColCode ==
    call.made =>
        \A i, j \in 1..Len(out) :
            i < j => LexLeq(SortKey(out[i]), SortKey(out[j]))

\* C3 (amended): the returned list is in emission order, with no final sort:
\* the diagnostics come pass by pass (filename rules; YAML rules; H011; H012;
\* H023; the walk over the lines; H007; the H000 of an exception), inside a
\* pass by ascending line, and inside one line of the walk in rule order.
C3_EmissionOrder ==
    call.made =>
        \A i, j \in 1..Len(out) :
            i < j => LexLeq(EmissionKey(out[i]), EmissionKey(out[j]))

\* a returned list in which a diagnostic of a later line precedes one of an
\* earlier line
C3_Witness ==
    /\ call.made
    /\ \E i, j \in 1..Len(out) : i < j /\ DiagLine(out[i]) > DiagLine(out[j]) /\ DiagLine(out[j]) > 0


(***************************************************************************)
(* Boundary files of the front matter.                                     *)
(***************************************************************************)
\* C11: for the file that is exactly two "---" lines and one empty line (an
\* empty YAML block), check with every rule active emits H004.
C11_EmptyYamlBlockEmitsH004 ==
    /\ call.made /\ readable
    /\ ~call.select.given /\ ~call.exclude_rules.given
    /\ content = <<"-", "-", "-", NL, "-", "-", "-", NL, NL>>
    => "H004" \in Codes(out)

\* the first line is "---" and a later line is "---"
C12_CompleteFrontMatter(lines) ==
    Len(lines) >= 1 /\ lines[1] = DASH3 /\ \E k \in 2..Len(lines) : lines[k] = DASH3

\* C12: when the file has no complete front matter (its first line is not
\* "---", or it is and no later line is "---"), yaml_end_line is 1, yaml_text
\* is empty and every line of the file is a content line.
C12_NoFrontMatterAllLinesContent ==
    call.made /\ doc.read /\ ~C12_CompleteFrontMatter(doc.all_lines) =>
        /\ doc.yaml_end_line = 1
        /\ doc.yaml_text = <<>>
        /\ doc.content_lines = doc.all_lines


(***************************************************************************)
(* SpecParse: front matter that parses or not, with a lang field, before a *)
(* prose line that breaks H006 and, in a Russian text, H024.               *)
(***************************************************************************)
MaxWritesParse == 5
ChunksParse == {<<"-", "-", "-", NL>>, <<"a", ":", " ", "b", ":", " ", "c", NL>>, <<"l", "a", "n", "g", ":", " ", "r", "u", NL>>, <<"x", " ", CYR_VE, CYR_YERU, " ", "o", "k", NL>>}
SelectsParse == {None, Given({"H005", "H024"})}

InitParse == InitWith({PathPlain})

NextParse ==
    \/ \E chunk \in ChunksParse : Write(chunk, MaxWritesParse)
    \/ \E select \in SelectsParse : Check(select, None)
    \/ Return

SpecParse == InitParse /\ [][NextParse]_vars

\* the positions in the returned list of the diagnostics with a code
C13_Positions(code) == {i \in 1..Len(out) : DiagCode(out[i]) = code}

\* C13: when the YAML block does not parse, check emits exactly one H000
\* "YAML parsing error" (at line 1), none of H003, H004, H005, and still runs
\* the other active rules on the content lines (every diagnostic but the H000
\* points at a content line, and every prose line with the spelling "ok" has
\* its H006 when H006 is active) with lang empty, so that H024 never fires.
C13_YamlParseFailure ==
    call.made /\ doc.read /\ LoadYaml(doc.yaml_text).kind = "error" =>
        /\ Cardinality(C13_Positions("H000")) = 1
        /\ \A i \in C13_Positions("H000") :
               DiagMessage(out[i]) = "YAML parsing error: <reason>" /\ DiagLine(out[i]) = 1
        /\ Codes(out) \cap {"H003", "H004", "H005", "H024"} = {}
        /\ doc.lang = <<>>
        /\ \A i \in 1..Len(out) : DiagCode(out[i]) # "H000" => ContentIndex(out[i]) > 0
        /\ \A k \in 1..Len(doc.content_lines) :
               /\ "H006" \in active
               /\ ~doc.code_mask[k]
               /\ WordMatches(CleanLine(doc.content_lines[k]), <<"o", "k">>) # {}
               => \E i \in C13_Positions("H006") : ContentIndex(out[i]) = k

\* front matter with "lang: ru" that does not parse, before a prose line whose
\* H006 is reported, in a call with H024 active
C13_Witness ==
    /\ call.made /\ doc.read /\ LoadYaml(doc.yaml_text).kind = "error"
    /\ contains(doc.yaml_text, <<"l", "a", "n", "g", ":", " ", "r", "u">>)
    /\ "H024" \in active
    /\ C13_Positions("H006") # {}
    /\ \E k \in 1..Len(doc.content_lines) : contains(doc.content_lines[k], <<CYR_VE, CYR_YERU>>)


(***************************************************************************)
(* SpecFail: files that can or cannot be read, at paths with a space in    *)
(* the name, in a directory only, or nowhere.                              *)
(***************************************************************************)
MaxWritesFail == 2
ChunksFail == {<<"o", "k", NL>>, <<"-", "-", "-", NL>>}
SelectsFail == {None} \cup {Given(S) : S \in SUBSET {"H001", "H002", "H006"}}
ExcludesFail == {None, Given({"H001"}), Given({"H000"})}

InitFail == InitWith({PathPlain, PathSpace, PathOutside})

NextFail ==
    \/ \E chunk \in ChunksFail : Write(chunk, MaxWritesFail)
    \/ Unlink
    \/ \E select \in SelectsFail, exclude_rules \in ExcludesFail : Check(select, exclude_rules)
    \/ Return

SpecFail == InitFail /\ [][NextFail]_vars

\* the H000 of the exception handler
C14_IsFailure(d) ==
    DiagCode(d) = "H000" /\ DiagMessage(d) = "Exception error: <reason>" /\ DiagLine(d) = 0

\* C14 (as stated): when the file cannot be read, the returned list is the
\* single diagnostic H000 "Exception error", whatever the path and the active
\* rules.
C14_SingleH000 ==
    call.made /\ ~readable => Len(out) = 1 /\ C14_IsFailure(out[1])

\* C14 (amended): when the file cannot be read, check returns normally and
\* the list ends with the single H000 "Exception error"; before it come only
\* the filename diagnostics the path earns: H001 when H001 is active and the
\* file name holds a space, then H002 when H002 is active and the path does.
C14_FailureAfterFilenameRules ==
    call.made /\ ~readable =>
        LET h001 == IF "H001" \in active /\ path = PathSpace THEN <<"H001">> ELSE <<>>
            h002 == IF "H002" \in active /\ path \in {PathSpace, PathOutside} THEN <<"H002">> ELSE <<>>
        IN /\ [i \in 1..Len(out) |-> DiagCode(out[i])] = h001 \o h002 \o <<"H000">>
           /\ C14_IsFailure(out[Len(out)])
           /\ \A i \in 1..(Len(out) - 1) : DiagLine(out[i]) = 0

\* an unreadable file whose path has a space in a directory only, checked
\* with H002 active: H002, then the H000
C14_Witness ==
    /\ call.made /\ ~readable
    /\ path = PathOutside
    /\ Len(out) = 2 /\ DiagCode(out[1]) = "H002" /\ C14_IsFailure(out[2])


(***************************************************************************)
(* Directory walker.  The file system is a function from paths (sequences  *)
(* of names below "/") to nodes; iterdir lists the entries of a directory  *)
(* in an order the file system chooses.                                    *)
(***************************************************************************)
DirNode == [kind |-> "dir", text |-> <<>>]
FileNode(text) == [kind |-> "file", text |-> text]

\* Path.is_dir(), Path.is_file()
is_dir(t, p) == p = <<>> \/ (p \in DOMAIN t /\ t[p].kind = "dir")
is_file(t, p) == p \in DOMAIN t /\ t[p].kind = "file"

\* the entries of a directory
Children(t, d) == {p \in DOMAIN t : Len(p) = Len(d) + 1 /\ SubSeq(p, 1, Len(d)) = d}

\* Path.name ("" for the root), Path.suffix
name_of(p) == IF p = <<>> THEN <<>> ELSE PathName(p)
suffix(p) ==
    LET i == rfind(name_of(p), <<".">>)
    IN IF 0 < i /\ i < Len(name_of(p)) - 1 THEN From(name_of(p), i) ELSE <<>>

base_patterns ==
    {<<"_", "_", "p", "y", "c", "a", "c", "h", "e", "_", "_">>, <<".", "c", "a", "c", "h", "e">>, <<".", "D", "S", "_", "S", "t", "o", "r", "e">>, <<".", "g", "i", "t">>, <<".", "i", "d", "e", "a">>, <<".", "n", "p", "m">>, <<".", "p", "y", "t", "e", "s", "t", "_", "c", "a", "c", "h", "e">>, <<".", "v", "e", "n", "v">>,
     <<".", "v", "s">>, <<".", "v", "s", "c", "o", "d", "e">>, <<"b", "u", "i", "l", "d">>, <<"c", "o", "n", "f", "i", "g">>, <<"d", "i", "s", "t">>, <<"n", "o", "d", "e", "_", "m", "o", "d", "u", "l", "e", "s">>, <<"t", "e", "s", "t", "s">>, <<"T", "h", "u", "m", "b", "s", ".", "d", "b">>, <<"v", "e", "n", "v">>}

\* should_ignore_path(path, additional_patterns), is_ignore_hidden left True
should_ignore_path(p, additional_patterns) ==
    \/ startswith(name_of(p), <<".">>)
    \/ name_of(p) \in base_patterns \cup {additional_patterns[k] : k \in 1..Len(additional_patterns)}

MarkdownSuffixes == {<<".", "m", "d">>, <<".", "m", "a", "r", "k", "d", "o", "w", "n">>}

\* variant: the files of a directory are yielded before its sub-directories
RECURSIVE find_markdown_files_mut_files_first(_, _, _, _)
find_markdown_files_mut_files_first(t, directory, additional_ignore_patterns, listing) ==
    IF ~is_dir(t, directory) THEN <<>>
    ELSE IF should_ignore_path(directory, additional_ignore_patterns) THEN <<>>
    ELSE ConcatRange([k \in 1..Len(listing[directory]) |->
             LET item == listing[directory][k]
             IN IF is_file(t, item) /\ lower(suffix(item)) \in MarkdownSuffixes THEN <<item>> ELSE <<>>],
             1, Len(listing[directory]))
         \o ConcatRange([k \in 1..Len(listing[directory]) |->
             LET item == listing[directory][k]
             IN IF is_dir(t, item) /\ ~should_ignore_path(item, additional_ignore_patterns)
                THEN find_markdown_files_mut_files_first(t, item, additional_ignore_patterns, listing)
                ELSE <<>>],
             1, Len(listing[directory]))

\* variant: the directory the walk starts from is not tested against the ignore patterns
RECURSIVE find_markdown_files_mut_root(_, _, _, _)
find_markdown_files_mut_root(t, directory, additional_ignore_patterns, listing) ==
    IF ~is_dir(t, directory) THEN <<>>
    ELSE ConcatRange([k \in 1..Len(listing[directory]) |->
             LET item == listing[directory][k]
             IN IF is_file(t, item) /\ lower(suffix(item)) \in MarkdownSuffixes THEN <<item>>
                ELSE IF is_dir(t, item) /\ ~should_ignore_path(item, additional_ignore_patterns)
                THEN find_markdown_files_mut_root(t, item, additional_ignore_patterns, listing)
                ELSE <<>>],
             1, Len(listing[directory]))

\* find_markdown_files: what the generator yields when iterdir lists each
\* directory d as listing[d]
RECURSIVE find_markdown_files(_, _, _, _)
find_markdown_files(t, directory, additional_ignore_patterns, listing) ==
    IF ~is_dir(t, directory) THEN <<>>
    ELSE IF should_ignore_path(directory, additional_ignore_patterns) THEN <<>>
    ELSE ConcatRange([k \in 1..Len(listing[directory]) |->
             LET item == listing[directory][k]
             IN IF is_file(t, item) /\ lower(suffix(item)) \in MarkdownSuffixes THEN <<item>>
                ELSE IF is_dir(t, item) /\ ~should_ignore_path(item, additional_ignore_patterns)
                THEN find_markdown_files(t, item, additional_ignore_patterns, listing)
                ELSE <<>>],
             1, Len(listing[directory]))

\* the orders in which iterdir may list the directories: each directory's
\* entries in the order some ranking of all the paths puts them
Rankings(t) ==
    {r \in [1..Cardinality(DOMAIN t) -> DOMAIN t] : \A i, j \in DOMAIN r : r[i] = r[j] => i = j}
Listed(t, r) ==
    [d \in {<<>>} \cup {p \in DOMAIN t : t[p].kind = "dir"} |-> SelectSeq(r, LAMBDA p : p \in Children(t, d))]
Listings(t) == {Listed(t, r) : r \in Rankings(t)}

\* the environment creates a directory or a file in an existing directory
Create(parent, name, node, max_entries) ==
    /\ ~walk.made /\ ~results.made
    /\ Cardinality(DOMAIN tree) < max_entries
    /\ is_dir(tree, parent)
    /\ Append(parent, name) \notin DOMAIN tree
    /\ tree' = [p \in DOMAIN tree \cup {Append(parent, name)} |->
                   IF p = Append(parent, name) THEN node ELSE tree[p]]
    /\ UNCHANGED <<py_all_rules, pycall, all_rules, project_root, path, readable, content, writes, call, active, doc, out, fmt,
                   walk, results>>

\* list(checker.find_markdown_files(directory, additional_ignore_patterns))
FindMarkdownFiles(directory, additional_ignore_patterns) ==
    /\ ~walk.made /\ ~results.made
    /\ \E listing \in Listings(tree) :
           walk' = [made |-> TRUE, directory |-> directory, extra |-> additional_ignore_patterns,
                    listing |-> listing,
                    found |-> find_markdown_files(tree, directory, additional_ignore_patterns, listing)]
    /\ UNCHANGED <<py_all_rules, pycall, all_rules, project_root, path, readable, content, writes, call, active, doc, out, fmt,
                   tree, results>>

\* the caller drops what the walk or check_directory returned
ReturnWalk ==
    /\ walk.made \/ results.made
    /\ walk' = NoWalk /\ results' = NoResults
    /\ UNCHANGED <<py_all_rules, pycall, all_rules, project_root, path, readable, content, writes, call, active, doc, out, fmt,
                   tree>>


(***************************************************************************)
(* SpecWalk: trees of plain, ignored and hidden directories holding files  *)
(* with Markdown and other suffixes, walked from any of their paths.       *)
(***************************************************************************)
MaxEntries == 3
WalkDirNames == {<<"t">>, <<"b", "u", "i", "l", "d">>, <<".", "g">>}
WalkFileNames == {<<"a", ".", "m", "d">>, <<"b", ".", "M", "A", "R", "K", "D", "O", "W", "N">>, <<"c", ".", "t", "x", "t">>}
\* additional_ignore_patterns: None (or the empty list), or a list of names
WalkExtras == {<<>>, <<<<"t">>>>}

InitWalk == InitWith({PathPlain})

NextWalk ==
    \/ \E parent \in {<<>>} \cup DOMAIN tree, name \in WalkDirNames : Create(parent, name, DirNode, MaxEntries)
    \/ \E parent \in {<<>>} \cup DOMAIN tree, name \in WalkFileNames :
           Create(parent, name, FileNode(<<>>), MaxEntries)
    \/ \E directory \in {<<>>} \cup DOMAIN tree, extra \in WalkExtras : FindMarkdownFiles(directory, extra)
    \/ ReturnWalk

SpecWalk == InitWalk /\ [][NextWalk]_vars

\* a name the walker skips: on the base ignore list, extra-listed or hidden
C15_IgnoredName(name, extra) ==
    \/ name \in base_patterns
    \/ \E k \in 1..Len(extra) : extra[k] = name
    \/ (name # <<>> /\ name[1] = ".")

\* the name ends, whatever the case of its letters, with .md or .markdown
C15_MarkdownName(name) ==
    \E sfx \in {<<".", "m", "d">>, <<".", "m", "a", "r", "k", "d", "o", "w", "n">>} : Len(name) > Len(sfx) /\ endswith(lower(name), sfx)

\* the regular files under D with a Markdown suffix, none of whose ancestor
\* directories strictly below D has an ignored name
C15_Eligible(D, extra) ==
    {f \in DOMAIN tree :
        /\ tree[f].kind = "file"
        /\ Len(f) > Len(D) /\ SubSeq(f, 1, Len(D)) = D
        /\ C15_MarkdownName(f[Len(f)])
        /\ \A k \in (Len(D) + 1)..(Len(f) - 1) : ~C15_IgnoredName(f[k], extra)}

C15_Found == {walk.found[i] : i \in 1..Len(walk.found)}

\* C15 (as stated): find_markdown_files(D, extra) yields exactly the regular
\* files under D with suffix .md or .markdown (case-insensitively) whose
\* every ancestor directory strictly below D is neither on the base ignore
\* list, nor in extra, nor hidden.
C15_WalkerEligibility ==
    walk.made => C15_Found = C15_Eligible(walk.directory, walk.extra)

\* C15 (amended): the same, provided the name of D itself is not ignored;
\* when it is (on the base list, in extra or hidden), nothing is yielded.
\* No file is yielded twice.
C15_WalkerEligibilityBelowKeptRoot ==
    walk.made =>
        /\ C15_Found = IF walk.directory # <<>> /\ C15_IgnoredName(PathName(walk.directory), walk.extra)
                       THEN {} ELSE C15_Eligible(walk.directory, walk.extra)
        /\ Cardinality(C15_Found) = Len(walk.found)

\* a walk that yields a file and leaves out a Markdown file lying under an
\* ignored directory
C15_Witness ==
    /\ walk.made
    /\ walk.found # <<>>
    /\ \E f \in DOMAIN tree :
           /\ tree[f].kind = "file" /\ C15_MarkdownName(f[Len(f)])
           /\ Len(f) > Len(walk.directory) + 1 /\ SubSeq(f, 1, Len(walk.directory)) = walk.directory
           /\ f \notin C15_Found

\* code points in ascending order, and the order of names they give
C16_Ascending == <<".", "0", "1", "2", "3", "4", "5", "6", "7", "8", "9", "A", "B", "C", "D", "E", "F", "G", "H", "I", "J", "K", "L", "M", "N", "O", "P", "Q", "R", "S", "T", "U", "V", "W", "X", "Y", "Z", "_", "a", "b", "c", "d", "e", "f", "g", "h", "i", "j", "k", "l", "m", "n", "o", "p", "q", "r", "s", "t", "u", "v", "w", "x", "y", "z">>
C16_Rank(c) == CHOOSE k \in 1..Len(C16_Ascending) : C16_Ascending[k] = c
RECURSIVE C16_NameLess(_, _)
C16_NameLess(a, b) ==
    IF b = <<>> THEN FALSE
    ELSE IF a = <<>> THEN TRUE
    ELSE IF a[1] # b[1] THEN C16_Rank(a[1]) < C16_Rank(b[1])
    ELSE C16_NameLess(Tail(a), Tail(b))

\* the first component at which two different paths, neither a prefix of the other, differ
C16_Fork(f, g) == SetMin({k \in 1..Len(f) : k > Len(g) \/ f[k] # g[k]})

\* the place of an entry in the listing of its directory
C16_Place(listing, entry) ==
    CHOOSE k \in 1..Len(listing[SubSeq(entry, 1, Len(entry) - 1)]) :
        listing[SubSeq(entry, 1, Len(entry) - 1)][k] = entry

\* C16 (as stated): the entries of each directory are enumerated in
\* lexicographic order of name, so the sequence is determined by the tree:
\* whatever order the file system lists the entries in, the same sequence is
\* returned.
C16_LexicographicOrder ==
    walk.made =>
        /\ \A i, j \in 1..Len(walk.found) :
               i < j => LET k == C16_Fork(walk.found[i], walk.found[j])
                        IN C16_NameLess(walk.found[i][k], walk.found[j][k])
        /\ \A listing \in Listings(tree) :
               find_markdown_files(tree, walk.directory, walk.extra, listing) = walk.found

\* C16 (amended): the entries of each directory are enumerated in the order
\* the file system lists them, depth first, with no sort: of two yielded
\* files the one whose branch is listed first in their last common directory
\* comes first.  The set of yielded files is determined by the tree; their
\* order is determined by the tree and the listing order.
C16_ListingOrder ==
    walk.made =>
        /\ \A i, j \in 1..Len(walk.found) :
               i < j => LET k == C16_Fork(walk.found[i], walk.found[j])
                        IN C16_Place(walk.listing, SubSeq(walk.found[i], 1, k))
                           < C16_Place(walk.listing, SubSeq(walk.found[j], 1, k))
        /\ \A listing \in Listings(tree) :
               {find_markdown_files(tree, walk.directory, walk.extra, listing)[i] :
                    i \in 1..Len(find_markdown_files(tree, walk.directory, walk.extra, listing))}
               = C15_Found

\* a walk that yields a file of a sub-directory before a file of the
\* directory itself whose name sorts first
C16_Witness ==
    /\ walk.made
    /\ \E i, j \in 1..Len(walk.found) :
           /\ i < j
           /\ Len(walk.found[i]) > Len(walk.found[j])
           /\ C16_NameLess(walk.found[j][C16_Fork(walk.found[i], walk.found[j])],
                           walk.found[i][C16_Fork(walk.found[i], walk.found[j])])


(***************************************************************************)
(* check_directory.                                                        *)
(***************************************************************************)
\* the yielded file whose str() is a key
FileOfKey(found, key) == found[SetMin({i \in 1..Len(found) : PathStr(found[i]) = key})]

\* variant: a file is recorded whether or not it has diagnostics
check_directory_mut_all(t, known, root, directory, select, exclude_rules, additional_ignore_patterns, listing) ==
    LET found == find_markdown_files(t, directory, additional_ignore_patterns, listing)
    IN [key \in {PathStr(found[i]) : i \in 1..Len(found)} |->
           check(FileOfKey(found, key), root, known, select, exclude_rules, TRUE, t[FileOfKey(found, key)].text)]

\* check_directory: results[str(md_file)] = errors for the files with errors
check_directory(t, known, root, directory, select, exclude_rules, additional_ignore_patterns, listing) ==
    LET found == find_markdown_files(t, directory, additional_ignore_patterns, listing)
        errors == [i \in 1..Len(found) |->
                      check(found[i], root, RegistryAfter(select, exclude_rules, known, i - 1), select,
                            exclude_rules, TRUE, t[found[i]].text)]
    IN [key \in {PathStr(found[i]) : i \in {j \in 1..Len(found) : errors[j] # <<>>}} |->
           errors[SetMax({i \in 1..Len(found) : PathStr(found[i]) = key})]]

\* checker.check_directory(directory, select=..., exclude_rules=..., additional_ignore_patterns=...)
CheckDirectory(directory, select, exclude_rules, additional_ignore_patterns) ==
    /\ ~walk.made /\ ~results.made
    /\ \E listing \in Listings(tree) :
           LET calls == Len(find_markdown_files(tree, directory, additional_ignore_patterns, listing))
               objects == determine_active_rules_objects(select, exclude_rules, all_rules)
           IN /\ results' = [made |-> TRUE, directory |-> directory, select |-> select,
                             exclude_rules |-> exclude_rules, extra |-> additional_ignore_patterns,
                             listing |-> listing,
                             map |-> check_directory(tree, all_rules, project_root, directory, select,
                                                     exclude_rules, additional_ignore_patterns, listing),
                             held |-> [select |-> IF calls = 0 THEN select.codes ELSE objects.select,
                                       exclude_rules |-> IF calls = 0 THEN exclude_rules.codes
                                                         ELSE objects.exclude_rules]]
              /\ all_rules' = RegistryAfter(select, exclude_rules, all_rules, calls)
    /\ UNCHANGED <<py_all_rules, pycall, project_root, path, readable, content, writes, call, active, doc, out, fmt,
                   tree, walk>>

(***************************************************************************)
(* SpecDir: trees of Markdown files with and without diagnostics, checked  *)
(* as directories.                                                         *)
(***************************************************************************)
MaxEntriesDir == 3
DirDirNames == {<<"t">>, <<"b", "u", "i", "l", "d">>}
DirFileNames == {<<"a", ".", "m", "d">>, <<"c", ".", "t", "x", "t">>}
DirTexts == {<<"o", "k", NL>>, <<"-", "-", "-", NL, "l", "a", "n", "g", ":", " ", "e", "n", NL, "-", "-", "-", NL>>}
DirSelects == {None, Given({"H006"})}

InitDir == InitWith({PathPlain})

NextDir ==
    \/ \E parent \in {<<>>} \cup DOMAIN tree, name \in DirDirNames : Create(parent, name, DirNode, MaxEntriesDir)
    \/ \E parent \in {<<>>} \cup DOMAIN tree, name \in DirFileNames, text \in DirTexts :
           Create(parent, name, FileNode(text), MaxEntriesDir)
    \/ \E directory \in {<<>>} \cup DOMAIN tree, select \in DirSelects, extra \in WalkExtras :
           CheckDirectory(directory, select, None, extra)
    \/ ReturnWalk

SpecDir == InitDir /\ [][NextDir]_vars

\* the files find_markdown_files enumerates for the call, and what check returns for one
C20_Enumerated ==
    LET found == find_markdown_files(tree, results.directory, results.extra, results.listing)
    IN {found[i] : i \in 1..Len(found)}
C20_Errors(f) == check(f, project_root, all_rules, results.select, results.exclude_rules, TRUE, tree[f].text)

\* C20: the keys of the map check_directory returns are exactly the files
\* find_markdown_files enumerates for which check returns at least one
\* diagnostic, each mapped to exactly that list; no key maps to an empty list.
C20_DirectoryMap ==
    results.made =>
        /\ DOMAIN results.map = {PathStr(f) : f \in {g \in C20_Enumerated : C20_Errors(g) # <<>>}}
        /\ \A f \in C20_Enumerated : C20_Errors(f) # <<>> => results.map[PathStr(f)] = C20_Errors(f)
        /\ \A key \in DOMAIN results.map : results.map[key] # <<>>

\* a call that records one enumerated file and leaves out another, which has
\* no diagnostic
C20_Witness ==
    /\ results.made
    /\ DOMAIN results.map # {}
    /\ \E f \in C20_Enumerated : PathStr(f) \notin DOMAIN results.map


(***************************************************************************)
(* SpecLines: front matter lines, fence lines and prose lines with         *)
(* trailing white space, tabs and no-break spaces.                         *)
(***************************************************************************)
MaxWritesLines == 4
ChunksLines == {<<"-", "-", "-", NL>>, <<"l", "a", "n", "g", ":", " ", "e", "n", " ", NL>>, <<BT, BT, BT, NL>>, <<TAB, "x", " ", NL>>, <<"a", NBSP, "b", NL>>}

InitLines == InitWith({PathPlain})

NextLines ==
    \/ \E chunk \in ChunksLines : Write(chunk, MaxWritesLines)
    \/ Check(None, None)
    \/ Return

SpecLines == InitLines /\ [][NextLines]_vars

\* the columns of the diagnostics with a code on a line of the file
C17_Columns(code, n) ==
    [i \in {j \in 1..Len(out) : DiagCode(out[j]) = code /\ DiagLine(out[j]) = n} |-> DiagCol(out[i])]

\* exactly one diagnostic with the code on line n, at column col
C17_OneAt(code, n, col) ==
    Cardinality(DOMAIN C17_Columns(code, n)) = 1 /\ \A i \in DOMAIN C17_Columns(code, n) : C17_Columns(code, n)[i] = col

\* the 1-based position of the first code point of the line that satisfies a test
C17_FirstTab(line) == SetMin({k \in 1..Len(line) : line[k] = TAB})
C17_FirstNbsp(line) == SetMin({k \in 1..Len(line) : line[k] = NBSP})
C17_FirstTrailing(line) == SetMin({k \in 1..Len(line) : \A m \in k..Len(line) : IsSpace(line[m])})

\* C17: H008, H010 and H022 apply to every physical line of the file (front
\* matter, fenced code and prose alike): a line with trailing white space, a
\* tab or a no-break space gets one diagnostic of the active rule, at the
\* 1-based column of the first offending code point.
C17_EveryPhysicalLine ==
    call.made /\ doc.read =>
        \A n \in 1..Len(doc.all_lines) :
            LET line == doc.all_lines[n]
            IN /\ ("H008" \in active /\ line # <<>> /\ IsSpace(line[Len(line)]))
                      => C17_OneAt("H008", n, C17_FirstTrailing(line))
               /\ ("H010" \in active /\ \E k \in 1..Len(line) : line[k] = TAB)
                      => C17_OneAt("H010", n, C17_FirstTab(line))
               /\ ("H022" \in active /\ \E k \in 1..Len(line) : line[k] = NBSP)
                      => C17_OneAt("H022", n, C17_FirstNbsp(line))

\* the same for the lines after the front matter only, in a call that did not
\* fail (not the claim)
C17_ContentLinesOnly ==
    call.made /\ doc.read /\ "H000" \notin Codes(out) =>
        \A n \in doc.yaml_end_line..Len(doc.all_lines) :
            LET line == doc.all_lines[n]
            IN /\ ("H008" \in active /\ line # <<>> /\ IsSpace(line[Len(line)]))
                      => C17_OneAt("H008", n, C17_FirstTrailing(line))
               /\ ("H010" \in active /\ \E k \in 1..Len(line) : line[k] = TAB)
                      => C17_OneAt("H010", n, C17_FirstTab(line))
               /\ ("H022" \in active /\ \E k \in 1..Len(line) : line[k] = NBSP)
                      => C17_OneAt("H022", n, C17_FirstNbsp(line))


(***************************************************************************)
(* The calls of the source linter.                                         *)
(***************************************************************************)
PathPy == <<<<"r">>, <<"a", ".", "p", "y">>>>

\* PythonChecker(project_root).check(path, exclude_rules)
CheckPy(exclude_rules) ==
    /\ ~pycall.made
    /\ pycall' = [made |-> TRUE, exclude_rules |-> exclude_rules, read |-> readable,
                  lines |-> IF readable THEN splitlines(content) ELSE <<>>,
                  file_ignored_rules |-> IF readable THEN get_file_ignored_rules(splitlines(content)) ELSE {},
                  rules_to_check |-> IF readable
                                     THEN (py_all_rules \ exclude_rules.codes) \ get_file_ignored_rules(splitlines(content))
                                     ELSE {},
                  out |-> py_check(path, project_root, py_all_rules, exclude_rules, readable, content)]
    /\ UNCHANGED <<py_all_rules, all_rules, project_root, path, readable, content, writes, call, active, doc, out, fmt,
                   tree, walk, results>>

\* the caller drops the list it was returned; nothing of the call remains
ReturnPy ==
    /\ pycall.made
    /\ pycall' = NoPyCall
    /\ UNCHANGED <<py_all_rules, all_rules, project_root, path, readable, content, writes, call, active, doc, out, fmt,
                   tree, walk, results>>

(***************************************************************************)
(* SpecPy: source lines with Russian and other Cyrillic letters and with   *)
(* line directives, checked under several exclude sets.                    *)
(***************************************************************************)
MaxWritesPy == 3
ChunksPy == {<<CYR_HA, NL>>, <<"a", CYR_I, NL>>, <<"a", CYR_VE, "#", "i", "g", "n", "o", "r", "e", ":", "h", "p", "0", "0", "1", NL>>, <<CYR_HA, " ", "#", " ", "i", "g", "n", "o", "r", "e", ":", " ", "H", "P", "0", "0", "2", ",", " ", "H", "P", "0", "0", "1", " ", NL>>, <<CYR_HA, " ", "#", " ", "i", "g", "n", "o", "r", "e", ":", " ", "H", "P", "0", "0", "2", " ", "#", " ", "i", "g", "n", "o", "r", "e", ":", " ", "H", "P", "0", "0", "1", NL>>, <<"#", " ", "i", "g", "n", "o", "r", "e", ":", " ", "H", "P", "0", "0", "1", NL>>, <<"#", " ", "f", "i", "l", "e", "-", "i", "g", "n", "o", "r", "e", ":", " ", "H", "P", "0", "0", "1", NL>>}
ExcludesPy == {None, Given({}), Given({"HP001"})}

InitPy == InitWith({PathPy})

NextPy ==
    \/ \E chunk \in ChunksPy : Write(chunk, MaxWritesPy)
    \/ Unlink
    \/ \E exclude_rules \in ExcludesPy : CheckPy(exclude_rules)
    \/ ReturnPy

SpecPy == InitPy /\ [][NextPy]_vars

\* the HP001 diagnostics of the last call on line n of the file
C18_Hits(n) == {i \in 1..Len(pycall.out) : DiagCode(pycall.out[i]) = "HP001" /\ DiagLine(pycall.out[i]) = n}

\* the letters of the Cyrillic block among the modelled code points
C18_Cyrillic == RussianLetters \cup {CYR_I}

\* the code lists of the line directives of a line, by the start of the directive
C18_Lists(line) ==
    [i \in {k \in 1..Len(line) : MatchesAt(line, IGNORE_PATTERN, k)} |->
        parse_rules_string(GroupAt(line, IGNORE_PATTERN, i))]

MaxWritesPyFile == 4
ChunksPyFile == {<<CYR_HA, NL>>, <<"#", " ", "f", "i", "l", "e", "-", "i", "g", "n", "o", "r", "e", ":", " ", "H", "P", "0", "0", "1", NL>>, <<"x", " ", "=", " ", "1", " ", " ", "#", "F", "I", "L", "E", "-", "I", "G", "N", "O", "R", "E", ":", "h", "p", "0", "0", "2", NL>>, <<"#", " ", "i", "g", "n", "o", "r", "e", ":", " ", "H", "P", "0", "0", "1", ",", " ", "H", "P", "0", "0", "2", NL>>, <<DQUOTE, DQUOTE, DQUOTE, NL>>, <<"A", "r", "g", "s", ":", NL, " ", "x", NL>>}
ExcludesPyFile == {None, Given({"HP002"})}

NextPyFile ==
    \/ \E chunk \in ChunksPyFile : Write(chunk, MaxWritesPyFile)
    \/ \E exclude_rules \in ExcludesPyFile : CheckPy(exclude_rules)
    \/ ReturnPy

SpecPyFile == InitPy /\ [][NextPyFile]_vars

\* the lines of the file that carry a file directive, and the codes they list
C19_DirectiveLines == {n \in 1..Len(pycall.lines) : search(pycall.lines[n], FILE_IGNORE_PATTERN) # 0}
C19_Listed ==
    UNION {parse_rules_string(GroupAt(pycall.lines[n], FILE_IGNORE_PATTERN, search(pycall.lines[n], FILE_IGNORE_PATTERN))) :
              n \in C19_DirectiveLines}

\* the diagnostics of the last call with a code, and those the file gets for
\* the code when nothing is ignored file-wide
C19_Out(code) == SelectSeq(pycall.out, LAMBDA d : DiagCode(d) = code)
C19_Unsuppressed(code) == py_check_content_rules(path, project_root, pycall.lines, {code})

\* C19: a file directive on any line removes the codes it lists for the whole
\* file, for the lines before it as for the lines after it; the codes it does
\* not list stay active; a line directive has no file-wide effect.
C19_FileWideIgnore ==
    pycall.made /\ pycall.read =>
        /\ pycall.rules_to_check = (py_all_rules \ pycall.exclude_rules.codes) \ C19_Listed
        /\ \A code \in C19_Listed : C19_Out(code) = <<>>
        /\ \A code \in (py_all_rules \ pycall.exclude_rules.codes) \ C19_Listed :
               C19_Out(code) = C19_Unsuppressed(code)
        /\ C19_DirectiveLines = {} => pycall.file_ignored_rules = {}

\* a call on a file whose file directive for HP001 comes after a line with a
\* Russian letter, and which still reports HP002
C19_Witness ==
    /\ pycall.made /\ pycall.read
    /\ "HP001" \in C19_Listed
    /\ \E n \in 1..Len(pycall.lines) :
          /\ has_russian_letters(pycall.lines[n])
          /\ ~should_ignore_line(pycall.lines[n], "HP001")
          /\ \A m \in C19_DirectiveLines : n < m
    /\ C19_Out("HP001") = <<>>
    /\ C19_Out("HP002") # <<>>

(***************************************************************************)
(* SpecBlank: files made of blank lines, lines of white space and text.    *)
(***************************************************************************)
MaxWritesBlank == 5
ChunksBlank == {<<NL, NL>>, <<NL>>, <<"a", NL>>, <<" ", NL>>}
SelectsBlank == {None, Given({"H012"})}
ExcludesBlank == {None, Given({"H012"})}

InitBlank == InitWith({PathPlain})

NextBlank ==
    \/ \E chunk \in ChunksBlank : Write(chunk, MaxWritesBlank)
    \/ \E select \in SelectsBlank, exclude_rules \in ExcludesBlank : Check(select, exclude_rules)
    \/ Return

SpecBlank == InitBlank /\ [][NextBlank]_vars

\* whether line n (1-based) of the file is blank
C21_Blank(n) == strip(doc.all_lines[n]) = <<>>

\* the first lines of the pairs of blank lines that neither start on the
\* first line of the file nor end on its last line
C21_InnerPairs ==
    {n \in 1..(Len(doc.all_lines) - 1) :
        C21_Blank(n) /\ C21_Blank(n + 1) /\ n > 1 /\ n + 1 < Len(doc.all_lines)}

\* how many H012 diagnostics of the last call name line n
C21_Count(n) == Cardinality({j \in 1..Len(out) : DiagCode(out[j]) = "H012" /\ DiagLine(out[j]) = n})

MaxWritesColon == 3
ChunksColon == {<<"a", " ", NL>>, <<"b", ":", NL>>, <<"-", " ", "c", NL>>, <<">", " ", "q", NL>>, <<"_", "d", "_", NL>>, <<"!", "[", "i", "]", "(", "u", ")", NL>>, <<"<", "p", ">", NL>>, <<"#", " ", "h", NL>>, <<"x", " ", "[", "!", "N", "O", "T", "E", "]", NL>>, <<"|", " ", "t", " ", "|", NL>>, <<NL, BT, BT, BT, NL>>, <<BT, BT, BT, NL>>, <<"-", "-", "-", NL, "l", "a", "n", "g", ":", " ", "e", "n", NL, "-", "-", "-", NL>>}
SelectsColon == {None, Given({"H013"})}

InitColon == InitWith({PathPlain})

NextColon ==
    \/ \E chunk \in ChunksColon : Write(chunk, MaxWritesColon)
    \/ \E select \in SelectsColon : Check(select, None)
    \/ Return

SpecColon == InitColon /\ [][NextColon]_vars

\* the H013 diagnostics of the last call for content line i (1-based index
\* into content_lines)
C22_Hits(i) ==
    {j \in 1..Len(out) : DiagCode(out[j]) = "H013" /\ DiagLine(out[j]) = (doc.yaml_end_line - 1) + i}

\* the call reached the content rules
C22_Ran == \A j \in 1..Len(out) : DiagCode(out[j]) = "H000" => DiagMessage(out[j]) # "Exception error: <reason>"

\* the line is followed by an empty line and a line that opens a fence
C22_BeforeCode(i) ==
    /\ i + 2 <= Len(doc.content_lines)
    /\ strip(doc.content_lines[i + 1]) = <<>>
    /\ startswith(strip(doc.content_lines[i + 2]), <<BT, BT, BT>>)

C22_LastCol(line) == SetMax({k \in 1..Len(line) : ~IsSpace(line[k])})

C22_Heading(s) == startswith(s, <<"#">>)
C22_HtmlTag(s) == startswith(s, <<"<">>)
C22_Marker(line) == \E m \in CodeMarkers : contains(line, m)
C22_Blockquote(s) == startswith(s, <<">">>)
C22_ListItem(s) == startswith(s, <<"-", " ">>) \/ startswith(s, <<"*", " ">>) \/ (s # <<>> /\ IsDigit(s[1]) /\ contains(s, <<".", " ">>))
C22_TableRow(s) == startswith(s, <<"|">>)
C22_ItalicCaption(s) == Len(s) >= 2 /\ startswith(s, <<"_">>) /\ endswith(s, <<"_">>)
C22_Image(s) == startswith(s, <<"!", "[">>)

C23_Tag(s) == \E t \in DetailsTags : startswith(lower(s), t)
C23_Paragraph(i) ==
    LET s == strip(doc.content_lines[i])
    IN /\ s # <<>>
       /\ ~doc.code_mask[i]
       /\ ~C22_Heading(s) /\ ~C22_Blockquote(s) /\ ~C22_ListItem(s) /\ ~C22_TableRow(s)
       /\ ~startswith(s, <<"$", "$">>) /\ ~C22_Image(s) /\ ~C23_Tag(s)

\* C23: an H023 diagnostic names the first line of a pair of consecutive
\* content lines that are both paragraph lines; a pair with a line of
\* another kind never gets one.
C23_OnlyParagraphPairs ==
    call.made /\ doc.read =>
        \A j \in 1..Len(out) :
            DiagCode(out[j]) = "H023" =>
                LET i == DiagLine(out[j]) - (doc.yaml_end_line - 1)
                IN /\ i \in 1..(Len(doc.content_lines) - 1)
                   /\ C23_Paragraph(i) /\ C23_Paragraph(i + 1)

(***************************************************************************)
(* SpecDetails: paragraph pairs before, inside and after details blocks,   *)
(* balanced or not.                                                        *)
(***************************************************************************)
MaxWritesDetails == 4
ChunksDetails == {<<"<", "d", "e", "t", "a", "i", "l", "s", ">", NL>>, <<"<", "/", "d", "e", "t", "a", "i", "l", "s", ">", NL>>, <<"a", NL, "a", NL>>, <<NL>>, <<"t", " ", "<", "d", "e", "t", "a", "i", "l", "s", ">", "u", "<", "/", "d", "e", "t", "a", "i", "l", "s", ">", NL>>, <<" ", " ", "<", "D", "e", "t", "a", "i", "l", "s", " ", "o", "p", "e", "n", ">", NL>>}
SelectsDetails == {None, Given({"H023"})}

InitDetails == InitWith({PathPlain})

NextDetails ==
    \/ \E chunk \in ChunksDetails : Write(chunk, MaxWritesDetails)
    \/ \E select \in SelectsDetails : Check(select, None)
    \/ Return

SpecDetails == InitDetails /\ [][NextDetails]_vars

\* the content lines 1..i that hold an opening tag, and those that hold a
\* closing tag (tags in any letter case)
C24_Opening(i) == {k \in 1..i : contains(lower(doc.content_lines[k]), <<"<", "d", "e", "t", "a", "i", "l", "s">>)}
C24_Closing(i) == {k \in 1..i : contains(lower(doc.content_lines[k]), <<"<", "/", "d", "e", "t", "a", "i", "l", "s", ">">>)}
C24_Depth(i) == Cardinality(C24_Opening(i)) - Cardinality(C24_Closing(i))

\* the H023 diagnostics for the pair whose first line is content line i
C24_Hits(i) == {j \in 1..Len(out) : DiagCode(out[j]) = "H023" /\ DiagLine(out[j]) = (doc.yaml_end_line - 1) + i}

\* the pair (i, i + 1) is one that H023 reports outside details blocks
C24_Pair(i) ==
    /\ strip(doc.content_lines[i]) # <<>> /\ strip(doc.content_lines[i + 1]) # <<>>
    /\ ~doc.code_mask[i] /\ ~doc.code_mask[i + 1]
    /\ is_paragraph_pair_requiring_empty_line(doc.content_lines[i], doc.content_lines[i + 1])

\* C24: no H023 for a pair whose first line has a depth above zero, whatever
\* the two lines hold; the depth is only compared against zero, so a pair at
\* depth zero or below is reported like a pair outside any block, and the
\* only codes of the output are those of the rule registry.
C24_DetailsDepth ==
    call.made /\ doc.read /\ "H023" \in active =>
        /\ \A i \in 1..(Len(doc.content_lines) - 1) :
              /\ C24_Depth(i) > 0 => C24_Hits(i) = {}
              /\ C24_Depth(i) <= 0 => (C24_Hits(i) # {} <=> C24_Pair(i))
        /\ Codes(out) \subseteq all_rules

\* a file with a silent pair inside a block and, after the block is closed,
\* a reported pair of the same lines
C24_Witness ==
    /\ call.made /\ doc.read /\ "H023" \in active
    /\ \E i \in 1..(Len(doc.content_lines) - 1) :
          /\ C24_Depth(i) > 0 /\ C24_Pair(i) /\ C24_Hits(i) = {}
          /\ \E k \in (i + 1)..(Len(doc.content_lines) - 1) : C24_Depth(k) <= 0 /\ C24_Hits(k) # {}

(***************************************************************************)
(* SpecPronoun: Russian prose with the capitalized polite pronoun at the   *)
(* start of a line, after a full stop, inside a sentence, in inline code,  *)
(* after an opening angle quote and after a dialogue dash.                 *)
(***************************************************************************)
MaxWritesPronoun == 3
ChunksPronoun == {<<"-", "-", "-", NL, "l", "a", "n", "g", ":", " ", "r", "u", NL, "-", "-", "-", NL>>, <<"x", " ", CYR_VE, CYR_YERU, NL>>, <<CYR_VE, CYR_YERU, " ", "x", ".", " ", CYR_VE, CYR_YERU, NL>>, <<BT, CYR_VE, CYR_YERU, BT, " ", "x", NL>>, <<"x", ":", " ", LAQUO, CYR_VE, CYR_YERU, RAQUO, NL>>, <<EMDASH, " ", CYR_VE, CYR_YERU, " ", "x", NL>>}
SelectsPronoun == {None, Given({"H024"})}

InitPronoun == InitWith({PathPlain})

NextPronoun ==
    \/ \E chunk \in ChunksPronoun : Write(chunk, MaxWritesPronoun)
    \/ \E select \in SelectsPronoun : Check(select, None)
    \/ Return

SpecPronoun == InitPronoun /\ [][NextPronoun]_vars

\* the 0-based starts of the capitalized pronouns of a line, as whole words
C25_Pronouns(line) ==
    UNION {WordMatches(line, RUSSIAN_POLITE_PRONOUNS_CAPITALIZED[k]) : k \in 1..Len(RUSSIAN_POLITE_PRONOUNS_CAPITALIZED)}

\* a sentence-start position: the start of the line, after a full stop,
\* exclamation or question mark and optional white space, directly after an
\* opening angle quote, or after a dash that leads the line
C25_SentenceStart(line, m) ==
    LET text_before == SubSeq(line, 1, m)
    IN \/ strip(text_before) = <<>>
       \/ rstrip(text_before)[Len(rstrip(text_before))] \in {".", "!", "?"}
       \/ text_before[m] = LAQUO
       \/ strip(text_before) \in {<<EMDASH>>, <<ENDASH>>, <<"-">>}

\* the pronouns of a line that stand inside a sentence and outside inline code
C25_MidSentence(line) ==
    {m \in C25_Pronouns(line) : ~inside_inline_code(line, m) /\ ~C25_SentenceStart(line, m)}

C25_Hits(n) == {j \in 1..Len(out) : DiagCode(out[j]) = "H024" /\ DiagLine(out[j]) = n}

\* C25: with lang ru and H024 active, a line gets an H024 exactly when it has
\* a capitalized polite pronoun inside a sentence and outside inline code, at
\* most once, at the column of such a pronoun; a pronoun at a sentence-start
\* position is never reported.
C25_SentenceStartExemption ==
    call.made /\ doc.read /\ "H024" \in active /\ doc.lang = <<"r", "u">> /\ C22_Ran =>
        \A i \in 1..Len(doc.content_lines) :
            LET n == (doc.yaml_end_line - 1) + i
                line == doc.content_lines[i]
            IN ~doc.code_mask[i] =>
                  /\ C25_Hits(n) # {} <=> C25_MidSentence(line) # {}
                  /\ Cardinality(C25_Hits(n)) <= 1
                  /\ \A j \in C25_Hits(n) : DiagCol(out[j]) - 1 \in C25_MidSentence(line)

(***************************************************************************)
(* SpecDash: prose lines, list items and table rows with a hyphen between  *)
(* spaces, in and out of inline code.                                      *)
(***************************************************************************)
MaxWritesDash == 3
ChunksDash == {<<"a", " ", "-", " ", "b", NL>>, <<"|", " ", "-", " ", "|", " ", "a", " ", "-", " ", "b", " ", "|", NL>>, <<"-", " ", "a", " ", "-", " ", "b", NL>>, <<BT, "x", " ", "-", " ", "y", BT, " ", "a", " ", "-", " ", "b", NL>>, <<"|", " ", "a", " ", "|", " ", "-", " ", "|", NL>>, <<"a", "-", "b", NL>>}
SelectsDash == {None, Given({"H016"})}

InitDash == InitWith({PathPlain})

NextDash ==
    \/ \E chunk \in ChunksDash : Write(chunk, MaxWritesDash)
    \/ \E select \in SelectsDash : Check(select, None)
    \/ Return

SpecDash == InitDash /\ [][NextDash]_vars

\* the table cell (between two bars, or a bar and an end of the line) that
\* holds the 0-based position pos of the line
C26_CellStart(line, pos) == SetMax({0} \cup {k \in 1..pos : line[k] = "|"})
C26_CellEnd(line, pos) == SetMin({Len(line) + 1} \cup {k \in (pos + 1)..Len(line) : line[k] = "|"})
C26_Cell(line, pos) == SubSeq(line, C26_CellStart(line, pos) + 1, C26_CellEnd(line, pos) - 1)

\* the 0-based starts of space-hyphen-space outside inline code and outside
\* a table cell that holds a hyphen and white space only
C26_Hyphens(line) ==
    {pos \in Occurrences(line, <<" ", "-", " ">>) :
        /\ ~inside_inline_code(line, pos)
        /\ ~(contains(line, <<"|">>) /\ strip(C26_Cell(line, pos)) = <<"-">>)}

\* C26: a prose line with space-hyphen-space outside inline code and outside
\* a hyphen-only table cell gets an H016 at the column of the first such
\* occurrence.
C26_HyphenReported ==
    call.made /\ doc.read /\ "H016" \in active /\ C22_Ran =>
        \A i \in 1..Len(doc.content_lines) :
            LET line == doc.content_lines[i]
            IN ~doc.code_mask[i] /\ C26_Hyphens(line) # {} =>
                  \E j \in 1..Len(out) :
                      /\ DiagCode(out[j]) = "H016"
                      /\ DiagLine(out[j]) = (doc.yaml_end_line - 1) + i
                      /\ DiagCol(out[j]) = SetMin(C26_Hyphens(line)) + 1

(***************************************************************************)
(* SpecPunct: lines with a space before a punctuation mark, in and out of  *)
(* inline code, one mark or two of them on a line.                         *)
(***************************************************************************)
MaxWritesPunct == 3
ChunksPunct == {<<"a", " ", ",", " ", "b", NL>>, <<BT, "a", " ", ",", " ", "b", BT, " ", "c", " ", ",", " ", "d", NL>>, <<BT, "a", " ", ",", " ", "b", BT, " ", "c", NL>>, <<"a", " ", ";", " ", "b", " ", ",", " ", "c", " ", ",", NL>>, <<"x", " ", "!", "n", "o", "t", "e", NL>>, <<"a", " ", "!", " ", "b", NL>>, <<"a", " ", BT, "?", " ", "b", BT, " ", "?", " ", "!", NL>>}
SelectsPunct == {None, Given({"H015"})}

InitPunct == InitWith({PathPlain})

NextPunct ==
    \/ \E chunk \in ChunksPunct : Write(chunk, MaxWritesPunct)
    \/ \E select \in SelectsPunct : Check(select, None)
    \/ Return

SpecPunct == InitPunct /\ [][NextPunct]_vars

C27_Marks == {".", ",", ";", ":", "?", "!"}

\* the 0-based starts of space-plus-mark in the line, outside inline code
C27_Outside(line, mark) ==
    {pos \in Occurrences(line, <<" ", mark>>) : ~inside_inline_code(line, pos)}

\* the H015 diagnostics of content line i about the mark
C27_About(i, mark) ==
    {j \in 1..Len(out) :
        /\ DiagCode(out[j]) = "H015"
        /\ DiagLine(out[j]) = (doc.yaml_end_line - 1) + i
        /\ DiagMessage(out[j]) = RULES.H015 \o ": found \" " \o mark \o "\""}

\* C27: each mark with a space before it outside inline code is reported on
\* its line at the column of such an occurrence, whatever inline code holds
\* before it, and no H015 points into inline code.
C27_SpaceBeforeMark ==
    call.made /\ doc.read /\ "H015" \in active /\ C22_Ran =>
        \A i \in 1..Len(doc.content_lines) : \A mark \in C27_Marks :
            LET line == doc.content_lines[i]
            IN ~doc.code_mask[i] =>
                  /\ C27_Outside(line, mark) # {} =>
                        \E j \in C27_About(i, mark) :
                            DiagCol(out[j]) - 1 \in C27_Outside(line, mark)
                  /\ \A j \in C27_About(i, mark) :
                        ~inside_inline_code(line, DiagCol(out[j]) - 1)

(***************************************************************************)
(* SpecDoc: source lines that open and close triple-quoted strings of both *)
(* styles, with and without a line directive, and section headings in      *)
(* comments and in docstrings.                                             *)
(***************************************************************************)
MaxWritesDoc == 4
ChunksDoc == {<<DQUOTE, DQUOTE, DQUOTE, NL>>, <<DQUOTE, DQUOTE, DQUOTE, " ", " ", "#", " ", "i", "g", "n", "o", "r", "e", ":", " ", "H", "P", "0", "0", "2", NL>>, <<"#", " ", "A", "r", "g", "s", ":", NL, " ", " ", " ", " ", "x", NL>>, <<DQUOTE, DQUOTE, DQUOTE, "a", DQUOTE, DQUOTE, DQUOTE, NL>>, <<DQUOTE, DQUOTE, DQUOTE, "a", "'", "'", "'", NL>>, <<"'", "'", "'", NL>>}
ExcludesDoc == {None, Given({"HP001"})}

NextDoc ==
    \/ \E chunk \in ChunksDoc : Write(chunk, MaxWritesDoc)
    \/ \E exclude_rules \in ExcludesDoc : CheckPy(exclude_rules)
    \/ ReturnPy

SpecDoc == InitPy /\ [][NextDoc]_vars

\* The triple-quoted string ("none", "double" or "single") the text is in
\* after the line, read from position pos (1-based) in the string it was in
\* before: a string ends at the next triple quote of its own style only, and
\* outside a string a number sign starts a comment that runs to the line end.
RECURSIVE C28_Scan(_, _, _)
C28_Scan(line, pos, state) ==
    LET three == IF pos + 2 <= Len(line) THEN SubSeq(line, pos, pos + 2) ELSE <<>>
    IN IF pos > Len(line) THEN state
       ELSE IF state = "none" /\ line[pos] = "#" THEN state
       ELSE IF state = "none" /\ three = TRIPLE_DOUBLE THEN C28_Scan(line, pos + 3, "double")
       ELSE IF state = "none" /\ three = TRIPLE_SINGLE THEN C28_Scan(line, pos + 3, "single")
       ELSE IF state = "double" /\ three = TRIPLE_DOUBLE THEN C28_Scan(line, pos + 3, "none")
       ELSE IF state = "single" /\ three = TRIPLE_SINGLE THEN C28_Scan(line, pos + 3, "none")
       ELSE C28_Scan(line, pos + 1, state)

\* the string the text is in after line n of the lines
RECURSIVE C28_After(_, _)
C28_After(lines, n) == IF n = 0 THEN "none" ELSE C28_Scan(lines[n], 1, C28_After(lines, n - 1))

\* line n lies after a line that opens a triple-quoted string and before the
\* line that closes it
C28_Inside(lines, n) == C28_After(lines, n - 1) # "none" /\ C28_After(lines, n) # "none"

C28_Heading(line) == \E k \in 1..Len(docstring_keywords) : endswith(strip(line), docstring_keywords[k])

\* the lines the last call reports HP002 for
C28_Reported == {DiagLine(pycall.out[j]) : j \in {k \in 1..Len(pycall.out) : DiagCode(pycall.out[k]) = "HP002"}}

\* C28: HP002 is reported only for a heading line inside a docstring whose
\* next line is indented text that is no list item; a heading line outside
\* every docstring is never reported.
C28_OnlyInsideDocstring ==
    pycall.made /\ pycall.read =>
        \A n \in C28_Reported :
            /\ n \in 1..(Len(pycall.lines) - 1)
            /\ C28_Heading(pycall.lines[n])
            /\ C28_Inside(pycall.lines, n)
            /\ strip(pycall.lines[n + 1]) # <<>>
            /\ pycall.lines[n + 1][1] \in {" ", TAB}
            /\ ~startswith(strip(pycall.lines[n + 1]), <<"-">>)

(***************************************************************************)
(* SpecNum: files with and without front matter whose lines end in white   *)
(* space, hold two spaces, open a fence with a language or form a pair of  *)
(* paragraph lines.                                                        *)
(***************************************************************************)
MaxWritesNum == 3
ChunksNum == {<<"-", "-", "-", NL, "l", "a", "n", "g", ":", " ", "e", "n", NL, "-", "-", "-", NL>>, <<"a", " ", NL>>, <<"c", " ", " ", "d", NL>>, <<BT, BT, BT, "p", "y", NL>>, <<NL>>, <<"e", NL, "f", NL>>}
SelectsNum == {None, Given({"H007", "H008", "H009", "H023"})}

InitNum == InitWith({PathPlain})

NextNum ==
    \/ \E chunk \in ChunksNum : Write(chunk, MaxWritesNum)
    \/ \E select \in SelectsNum : Check(select, None)
    \/ Return

SpecNum == InitNum /\ [][NextNum]_vars

\* the rules that report a line of the content: the rules applied line by
\* line, H023 and H007
C29_LineRules ==
    {"H006", "H007", "H008", "H009", "H010", "H013", "H014", "H015", "H016", "H017", "H018", "H019", "H020",
     "H021", "H022", "H023", "H024", "H025", "H026", "H028", "H029", "H030"}

\* what a line of the file shows when a rule has something to report for it
C29_Trailing(line) == line # <<>> /\ IsSpace(line[Len(line)])
C29_Language(line) == startswith(line, <<BT, BT, BT, "p", "y">>)

\* the numbers of the lines the last call reports with the code
C29_Lines(code) == {DiagLine(out[j]) : j \in {k \in 1..Len(out) : DiagCode(out[k]) = code}}

\* C29: a diagnostic of a rule applied to the content lines carries the
\* 1-based position in the whole file of the line it is about, with and
\* without front matter, and never a number outside 1..(number of lines).
C29_LineNumbers ==
    call.made /\ doc.read /\ C22_Ran =>
        /\ \A j \in 1..Len(out) :
               DiagCode(out[j]) \in C29_LineRules =>
                   /\ DiagLine(out[j]) \in 1..Len(doc.all_lines)
                   /\ DiagLine(out[j]) >= doc.yaml_end_line
        /\ \A n \in C29_Lines("H008") : C29_Trailing(doc.all_lines[n])
        /\ \A n \in C29_Lines("H009") : contains(doc.all_lines[n], <<" ", " ">>)
        /\ \A n \in C29_Lines("H007") : C29_Language(doc.all_lines[n])
        /\ \A n \in C29_Lines("H023") :
               /\ n + 1 <= Len(doc.all_lines)
               /\ strip(doc.all_lines[n]) # <<>> /\ strip(doc.all_lines[n + 1]) # <<>>
        /\ \A n \in doc.yaml_end_line..Len(doc.all_lines) :
               /\ "H008" \in active /\ C29_Trailing(doc.all_lines[n]) => n \in C29_Lines("H008")
               /\ "H007" \in active /\ C29_Language(doc.all_lines[n]) => n \in C29_Lines("H007")

\* a call on a file with front matter that reports its fourth line for the
\* white space at its end and its fifth line for the language of its fence
C29_Witness ==
    /\ call.made /\ doc.read /\ doc.yaml_end_line = 4
    /\ C29_Lines("H008") = {4}
    /\ C29_Lines("H007") = {5}

(***************************************************************************)
(* SpecState: one checker called again and again, on a file and on a tree, *)
(* with select and exclude sets that name known and unknown codes.         *)
(***************************************************************************)
MaxWritesState == 1
MaxEntriesState == 2
ChunksState == {<<"a", " ", NL>>, <<"o", "k", NL>>}
SelectsState == {None, Given({"H008"}), Given({"H003", "H999"})}
ExcludesState == {None, Given({"H008"}), Given({"H003", "H999"})}
StateDirNames == {<<"t">>}
StateFileNames == {<<"a", ".", "m", "d">>}

InitState == InitWith({PathPlain})

NextState ==
    \/ \E chunk \in ChunksState : Write(chunk, MaxWritesState)
    \/ \E select \in SelectsState, exclude_rules \in ExcludesState : Check(select, exclude_rules)
    \/ Return
    \/ \E parent \in {<<>>} \cup DOMAIN tree, name \in StateDirNames : Create(parent, name, DirNode, MaxEntriesState)
    \/ \E parent \in {<<>>} \cup DOMAIN tree, name \in StateFileNames, text \in ChunksState :
           Create(parent, name, FileNode(text), MaxEntriesState)
    \/ \E directory \in {<<>>} \cup DOMAIN tree, select \in SelectsState, exclude_rules \in ExcludesState :
           CheckDirectory(directory, select, exclude_rules, <<>>)
    \/ ReturnWalk

SpecState == InitState /\ [][NextState]_vars

\* C30: whatever calls of check and check_directory were made before, the
\* registry is the set of the keys of RULES, project_root is what the
\* constructor set, the sets a caller passed hold what they held, and what a
\* call returned is what the same call returns on a checker just constructed.
C30_NoSharedState ==
    /\ all_rules = DOMAIN RULES
    /\ project_root = Root
    /\ call.made =>
           /\ call.held.select = call.select.codes
           /\ call.held.exclude_rules = call.exclude_rules.codes
           /\ out = check(path, Root, DOMAIN RULES, call.select, call.exclude_rules, readable, content)
    /\ results.made =>
           /\ results.held.select = results.select.codes
           /\ results.held.exclude_rules = results.exclude_rules.codes
           /\ results.map = check_directory(tree, DOMAIN RULES, Root, results.directory, results.select,
                                            results.exclude_rules, results.extra, results.listing)

\* a call of check_directory without select that excluded a known code and
\* reported files, followed by a call of check without select that excluded
\* another known code and reported the file
C30_Witness ==
    /\ results.made /\ ~results.select.given /\ "H008" \in results.exclude_rules.codes
    /\ DOMAIN results.map # {}
    /\ call.made /\ ~call.select.given /\ "H003" \in call.exclude_rules.codes
    /\ "H008" \in Codes(out)

====
